---------------------------- MODULE Spec2Model ----------------------------
(***************************************************************************)
(* Kontracts-API: lease schedules under ASC 842 and IFRS 16.               *)
(*                                                                         *)
(* The model has two layers.  The calculators (app/services) are pure      *)
(* operators over decimal amounts; the API handlers (app/api/v1) are       *)
(* actions over the database tables.                                       *)
(*                                                                         *)
(* Decimal amounts are integers counted in thousandths (0.001), the finest *)
(* quantum the code rounds to; a date is a day number, a datetime a count  *)
(* of ticks (TicksPerDay ticks to the day).  A rate is kept as the exact   *)
(* fraction num/den.                                                       *)
(***************************************************************************)
EXTENDS Integers, Sequences, FiniteSets, Bags

(***************************************************************************)
(* Bounds of the model.                                                    *)
(***************************************************************************)
MaxLeases == 2
MaxPayments == 1
MaxCalcPayments == 3
TicksPerDay == 2
MaxRequests == 2
MaxTermPayments == 4

(***************************************************************************)
(* Quanta of the decimal arithmetic, in thousandths.                       *)
(***************************************************************************)
Cent == 10
Mill == 1

(* An optional value (a nullable column, a session that may be open) is    *)
(* the empty sequence or the sequence of its one value.                    *)
NULL == <<>>

Some(v) == <<v>>

Max(a, b) == IF a >= b THEN a ELSE b

RECURSIVE Gcd(_, _)
Gcd(a, b) == IF b = 0 THEN a ELSE Gcd(b, a % b)

RECURSIVE Pow(_, _)
Pow(b, k) == IF k = 0 THEN 1 ELSE b * Pow(b, k - 1)

RECURSIVE SumSeq(_)
SumSeq(s) == IF s = <<>> THEN 0 ELSE Head(s) + SumSeq(Tail(s))

(* The integer nearest num/den (den > 0), a tie going away from zero:      *)
(* decimal.ROUND_HALF_UP.                                                  *)
RoundHalfUp(num, den) ==
    IF num >= 0 THEN (2 * num + den) \div (2 * den)
                ELSE -((2 * (-num) + den) \div (2 * den))

(* Decimal.quantize(q, rounding=ROUND_HALF_UP) of the value num/den.       *)
Quantize(num, den, q) == q * RoundHalfUp(num, den * q)

(***************************************************************************)
(* app/services: the calculators.                                          *)
(*                                                                         *)
(* A payment_schedule is the list fetch_payments_from_db returns: records  *)
(* [amount, due_date, payment_id] with due_date already cut to its date.   *)
(* A lease is the record of its columns (app/models/lease.py).             *)
(***************************************************************************)

(* The positive day gaps between consecutive due dates (the loop of        *)
(* calculate_period_rate_from_payments).                                   *)
days_between(payment_schedule) ==
    LET gap(i) == payment_schedule[i + 1].due_date - payment_schedule[i].due_date
        idx == {i \in 1..(Len(payment_schedule) - 1) : gap(i) > 0}
        RECURSIVE collect(_)
        collect(i) == IF i > Len(payment_schedule) - 1 THEN <<>>
                      ELSE IF i \in idx THEN <<gap(i)>> \o collect(i + 1)
                      ELSE collect(i + 1)
    IN collect(1)

(* The cadence taken from the average over every gap, the zero gaps of     *)
(* payments due on the same day included.                                  *)
periods_per_year_over_every_gap(payment_schedule) ==
    LET n == Len(payment_schedule)
        span == payment_schedule[n].due_date - payment_schedule[1].due_date
    IN IF n > 1 /\ span > 0
       THEN IF span <= 35 * (n - 1) THEN 12
            ELSE IF span <= 100 * (n - 1) THEN 4
            ELSE 1
       ELSE 12

(* Compounding periods per year inferred from the payment cadence:         *)
(* avg_days = sum/len is compared as sum <= bound * len.                   *)
periods_per_year(payment_schedule) ==
    LET gaps == days_between(payment_schedule)
    IN IF Len(payment_schedule) > 1 /\ gaps # <<>>
       THEN IF SumSeq(gaps) <= 35 * Len(gaps) THEN 12
            ELSE IF SumSeq(gaps) <= 100 * Len(gaps) THEN 4
            ELSE 1
       ELSE 12

(* annual_rate / periods with annual_rate = (percent rate) / 100, as the   *)
(* exact fraction num/den.                                                 *)
calculate_period_rate_from_payments(annual_percent, payment_schedule) ==
    [num |-> annual_percent, den |-> 100 * periods_per_year(payment_schedule)]

(* amount / (1 + rate)^k as a mixed number i + f / B^k, where              *)
(* 1 + rate = B / d in lowest terms; 0 <= f < B^k.                         *)
RECURSIVE discounted(_, _, _, _)
discounted(amount, d, B, k) ==
    IF k = 0 THEN [i |-> amount, f |-> 0]
    ELSE LET p == discounted(amount, d, B, k - 1)
             Dp == Pow(B, k - 1)
             t == p.i * d
             raw == (t % B) * Dp + p.f * d
         IN [i |-> (t \div B) + (raw \div (Dp * B)), f |-> raw % (Dp * B)]

(* The sum over the periods k = 1..n of payment k discounted by            *)
(* (1 + rate)^k, as a mixed number over B^n.                               *)
RECURSIVE discounted_sum(_, _, _, _)
discounted_sum(payment_schedule, d, B, k) ==
    IF k = 0 THEN [i |-> 0, f |-> 0]
    ELSE LET n == Len(payment_schedule)
             rest == discounted_sum(payment_schedule, d, B, k - 1)
             term == discounted(payment_schedule[k].amount, d, B, k)
             f == rest.f + term.f * Pow(B, n - k)
         IN [i |-> rest.i + term.i + (f \div Pow(B, n)), f |-> f % Pow(B, n)]

(* pv.quantize(q, ROUND_HALF_UP) of the mixed number i + f/D.              *)
quantize_mixed(i, f, D, q) ==
    LET c == i \div q
        num == (i % q) * D + f
        den == q * D
        up == IF c >= 0 THEN 2 * num >= den ELSE 2 * num > den
    IN q * (c + (IF up THEN 1 ELSE 0))

(* The present value both calculators compute: each payment discounted by  *)
(* (1 + rate)^period_num (factor 1 when the rate is 0), plus the residual  *)
(* value discounted by (1 + rate)^n when residual_discounted and added     *)
(* undiscounted otherwise, quantized to q.  The code multiplies floats;    *)
(* the model takes the exact quotient, which the float product matches to  *)
(* far below the quantum q.                                                *)
present_value(payment_schedule, period_rate, residual_value, residual_discounted, q) ==
    LET n == Len(payment_schedule)
        g == Gcd(period_rate.num + period_rate.den, period_rate.den)
        d == IF period_rate.num = 0 THEN 1 ELSE period_rate.den \div g
        B == IF period_rate.num = 0 THEN 1 ELSE (period_rate.num + period_rate.den) \div g
        pays == discounted_sum(payment_schedule, d, B, n)
        res == IF residual_value > 0
               THEN IF residual_discounted THEN discounted(residual_value, d, B, n)
                    ELSE [i |-> residual_value, f |-> 0]
               ELSE [i |-> 0, f |-> 0]
        f == pays.f + res.f
    IN quantize_mixed(pays.i + res.i + (f \div Pow(B, n)), f % Pow(B, n), Pow(B, n), q)

(* ASC842Calculator.calculate_present_value_from_payments: the residual    *)
(* is discounted when rate > 0, 2 decimals.                                *)
calculate_present_value_from_payments(lease, payment_schedule, period_rate) ==
    present_value(payment_schedule, period_rate, lease.residual_value,
                  period_rate.num > 0, Cent)

(* The present value with the residual value left out.                     *)
calculate_present_value_residual_dropped(lease, payment_schedule, period_rate) ==
    present_value(payment_schedule, period_rate, 0, FALSE, Mill)

(* IFRS16Calculator.calculate_present_value: the residual is discounted    *)
(* unless rate == 0, 3 decimals.                                           *)
calculate_present_value(lease, payment_schedule, period_rate) ==
    present_value(payment_schedule, period_rate, lease.residual_value,
                  period_rate.num # 0, Mill)

(* rou_asset = lease_liability + initial_direct_costs + prepaid_rent       *)
(* - lease_incentives.                                                     *)
calculate_initial_measurements(lease, lease_liability) ==
    [rou_asset |-> lease_liability + lease.initial_direct_costs
                   + lease.prepaid_rent - lease.lease_incentives,
     lease_liability |-> lease_liability]

(* One row of a schedule, as the dictionaries the generators append.       *)
Entry(period, period_date, lease_payment, interest_expense, principal_reduction, lease_liability_beginning, lease_liability_ending, rou_asset_beginning, amortization, rou_asset_ending, total_expense) ==
    [period |-> period, period_date |-> period_date,
     lease_payment |-> lease_payment, interest_expense |-> interest_expense,
     principal_reduction |-> principal_reduction,
     lease_liability_beginning |-> lease_liability_beginning,
     lease_liability_ending |-> lease_liability_ending,
     rou_asset_beginning |-> rou_asset_beginning,
     amortization |-> amortization, rou_asset_ending |-> rou_asset_ending,
     total_expense |-> total_expense]

(* Period 0 with every balance zero, as its flows are.                     *)
initial_entry_without_balances(lease, rou_asset, lease_liability) ==
    Entry(0, lease.commencement_date, 0, 0, 0, 0, 0, 0, 0, 0, 0)

(* Period 0 of the ASC 842 schedules: the initial measurement.             *)
initial_entry(lease, rou_asset, lease_liability) ==
    Entry(0, lease.commencement_date, 0, 0, 0, lease_liability, lease_liability,
          rou_asset, 0, rou_asset, 0)

(* The finance loop with the principal reduction taken net of interest.    *)
RECURSIVE finance_periods_principal_net_of_interest(_, _, _, _, _, _)
finance_periods_principal_net_of_interest(payment_schedule, period_rate, amortization_per_period, k, liability_balance, asset_balance) ==
    IF k > Len(payment_schedule) THEN <<>>
    ELSE LET payment_amount == payment_schedule[k].amount
             liability_after_payment == liability_balance - payment_amount
             interest_expense == Quantize(liability_after_payment * period_rate.num,
                                          period_rate.den, Cent)
             principal_reduction == payment_amount - interest_expense
             liability_ending == liability_after_payment + interest_expense
             amortization == IF k = Len(payment_schedule) THEN asset_balance
                             ELSE amortization_per_period
             asset_ending == asset_balance - amortization
         IN <<Entry(k, payment_schedule[k].due_date, payment_amount, interest_expense,
                    principal_reduction, liability_balance, Max(liability_ending, 0),
                    asset_balance, amortization, Max(asset_ending, 0),
                    interest_expense + amortization)>>
            \o finance_periods_principal_net_of_interest(payment_schedule, period_rate,
                               amortization_per_period, k + 1,
                               Max(liability_ending, 0), Max(asset_ending, 0))

(* The finance loop with the ending balances recorded and carried forward  *)
(* as computed, without the floor at zero.                                 *)
RECURSIVE finance_periods_unclamped(_, _, _, _, _, _)
finance_periods_unclamped(payment_schedule, period_rate, amortization_per_period, k, liability_balance, asset_balance) ==
    IF k > Len(payment_schedule) THEN <<>>
    ELSE LET payment_amount == payment_schedule[k].amount
             principal_reduction == payment_amount
             liability_after_payment == liability_balance - principal_reduction
             interest_expense == Quantize(liability_after_payment * period_rate.num,
                                          period_rate.den, Cent)
             liability_ending == liability_after_payment + interest_expense
             amortization == IF k = Len(payment_schedule) THEN asset_balance
                             ELSE amortization_per_period
             asset_ending == asset_balance - amortization
         IN <<Entry(k, payment_schedule[k].due_date, payment_amount, interest_expense,
                    principal_reduction, liability_balance, liability_ending,
                    asset_balance, amortization, asset_ending,
                    interest_expense + amortization)>>
            \o finance_periods_unclamped(payment_schedule, period_rate,
                               amortization_per_period, k + 1,
                               liability_ending, asset_ending)

(* The loop of _generate_finance_lease_schedule from period k on.          *)
RECURSIVE finance_periods(_, _, _, _, _, _)
finance_periods(payment_schedule, period_rate, amortization_per_period, k, liability_balance, asset_balance) ==
    IF k > Len(payment_schedule) THEN <<>>
    ELSE LET payment_amount == payment_schedule[k].amount
             principal_reduction == payment_amount
             liability_after_payment == liability_balance - principal_reduction
             interest_expense == Quantize(liability_after_payment * period_rate.num,
                                          period_rate.den, Cent)
             liability_ending == liability_after_payment + interest_expense
             amortization == IF k = Len(payment_schedule) THEN asset_balance
                             ELSE amortization_per_period
             asset_ending == asset_balance - amortization
         IN <<Entry(k, payment_schedule[k].due_date, payment_amount, interest_expense,
                    principal_reduction, liability_balance, Max(liability_ending, 0),
                    asset_balance, amortization, Max(asset_ending, 0),
                    interest_expense + amortization)>>
            \o finance_periods(payment_schedule, period_rate, amortization_per_period,
                               k + 1, Max(liability_ending, 0), Max(asset_ending, 0))

_generate_finance_lease_schedule(lease, rou_asset, lease_liability, payment_schedule, period_rate) ==
    <<initial_entry(lease, rou_asset, lease_liability)>>
    \o finance_periods(payment_schedule, period_rate,
                       Quantize(rou_asset, Len(payment_schedule), Cent), 1,
                       lease_liability, rou_asset)

(* The operating loop with the interest accrued on the liability left      *)
(* after the payment, as the finance loop accrues it.                      *)
RECURSIVE operating_periods_interest_after_payment(_, _, _, _, _, _)
operating_periods_interest_after_payment(payment_schedule, period_rate, straight_line_expense, k, liability_balance, asset_balance) ==
    IF k > Len(payment_schedule) THEN <<>>
    ELSE LET payment_amount == payment_schedule[k].amount
             principal_reduction == payment_amount
             liability_after_payment == liability_balance - principal_reduction
             interest_expense == Quantize(liability_after_payment * period_rate.num,
                                          period_rate.den, Cent)
             liability_ending == liability_after_payment + interest_expense
             plug == straight_line_expense - interest_expense
             floored == IF plug < 0 THEN 0 ELSE plug
             amortization == IF floored > asset_balance THEN asset_balance ELSE floored
             asset_ending == asset_balance - amortization
         IN <<Entry(k, payment_schedule[k].due_date, payment_amount, interest_expense,
                    principal_reduction, liability_balance, Max(liability_ending, 0),
                    asset_balance, amortization, Max(asset_ending, 0),
                    straight_line_expense)>>
            \o operating_periods_interest_after_payment(payment_schedule, period_rate,
                                 straight_line_expense, k + 1,
                                 Max(liability_ending, 0), Max(asset_ending, 0))

(* The operating loop with the ending liability left at the balance after  *)
(* the payment, the accrued interest not added back.                       *)
RECURSIVE operating_periods_interest_not_added(_, _, _, _, _, _)
operating_periods_interest_not_added(payment_schedule, period_rate, straight_line_expense, k, liability_balance, asset_balance) ==
    IF k > Len(payment_schedule) THEN <<>>
    ELSE LET payment_amount == payment_schedule[k].amount
             principal_reduction == payment_amount
             liability_after_payment == liability_balance - principal_reduction
             interest_expense == Quantize(liability_balance * period_rate.num,
                                          period_rate.den, Cent)
             liability_ending == liability_after_payment
             plug == straight_line_expense - interest_expense
             floored == IF plug < 0 THEN 0 ELSE plug
             amortization == IF floored > asset_balance THEN asset_balance ELSE floored
             asset_ending == asset_balance - amortization
         IN <<Entry(k, payment_schedule[k].due_date, payment_amount, interest_expense,
                    principal_reduction, liability_balance, Max(liability_ending, 0),
                    asset_balance, amortization, Max(asset_ending, 0),
                    straight_line_expense)>>
            \o operating_periods_interest_not_added(payment_schedule, period_rate,
                                 straight_line_expense, k + 1,
                                 Max(liability_ending, 0), Max(asset_ending, 0))

(* The loop of _generate_operating_lease_schedule from period k on.        *)
RECURSIVE operating_periods(_, _, _, _, _, _)
operating_periods(payment_schedule, period_rate, straight_line_expense, k, liability_balance, asset_balance) ==
    IF k > Len(payment_schedule) THEN <<>>
    ELSE LET payment_amount == payment_schedule[k].amount
             principal_reduction == payment_amount
             liability_after_payment == liability_balance - principal_reduction
             interest_expense == Quantize(liability_balance * period_rate.num,
                                          period_rate.den, Cent)
             liability_ending == liability_after_payment + interest_expense
             plug == straight_line_expense - interest_expense
             floored == IF plug < 0 THEN 0 ELSE plug
             amortization == IF floored > asset_balance THEN asset_balance ELSE floored
             asset_ending == asset_balance - amortization
         IN <<Entry(k, payment_schedule[k].due_date, payment_amount, interest_expense,
                    principal_reduction, liability_balance, Max(liability_ending, 0),
                    asset_balance, amortization, Max(asset_ending, 0),
                    straight_line_expense)>>
            \o operating_periods(payment_schedule, period_rate, straight_line_expense,
                                 k + 1, Max(liability_ending, 0), Max(asset_ending, 0))

_generate_operating_lease_schedule(lease, rou_asset, lease_liability, payment_schedule, period_rate) ==
    LET amounts == [k \in 1..Len(payment_schedule) |-> payment_schedule[k].amount]
        total_lease_cost == SumSeq(amounts) + lease.initial_direct_costs
    IN <<initial_entry(lease, rou_asset, lease_liability)>>
       \o operating_periods(payment_schedule, period_rate,
                            Quantize(total_lease_cost, Len(payment_schedule), Cent), 1,
                            lease_liability, rou_asset)

(* The loop with the periodic rate taken once per elapsed period: the      *)
(* interest of period k is k times the rate on the balance.                *)
RECURSIVE ifrs16_periods_rate_per_elapsed_period(_, _, _, _, _, _)
ifrs16_periods_rate_per_elapsed_period(payment_schedule, period_rate, depreciation_per_period, k, remaining_liability, remaining_asset) ==
    IF k > Len(payment_schedule) THEN <<>>
    ELSE LET payment_amount == payment_schedule[k].amount
             interest_expense == Quantize(remaining_liability * period_rate.num * k,
                                          period_rate.den, Mill)
             principal_reduction == payment_amount - interest_expense
             ending_liability == remaining_liability - principal_reduction
             depreciation == IF k = Len(payment_schedule) THEN remaining_asset
                             ELSE depreciation_per_period
             ending_asset == remaining_asset - depreciation
         IN <<Entry(k, payment_schedule[k].due_date, payment_amount, interest_expense,
                    principal_reduction, remaining_liability, Max(ending_liability, 0),
                    remaining_asset, depreciation, Max(ending_asset, 0),
                    interest_expense + depreciation)>>
            \o ifrs16_periods_rate_per_elapsed_period(payment_schedule, period_rate,
                              depreciation_per_period, k + 1,
                              Max(ending_liability, 0), Max(ending_asset, 0))

(* The IFRS 16 loop with every period begun from the initial measurement   *)
(* instead of the balances the period before ended with.                   *)
RECURSIVE ifrs16_periods_from_initial_balances(_, _, _, _, _, _)
ifrs16_periods_from_initial_balances(payment_schedule, period_rate, depreciation_per_period, k, remaining_liability, remaining_asset) ==
    IF k > Len(payment_schedule) THEN <<>>
    ELSE LET payment_amount == payment_schedule[k].amount
             interest_expense == Quantize(remaining_liability * period_rate.num,
                                          period_rate.den, Mill)
             principal_reduction == payment_amount - interest_expense
             ending_liability == remaining_liability - principal_reduction
             depreciation == IF k = Len(payment_schedule) THEN remaining_asset
                             ELSE depreciation_per_period
             ending_asset == remaining_asset - depreciation
         IN <<Entry(k, payment_schedule[k].due_date, payment_amount, interest_expense,
                    principal_reduction, remaining_liability, Max(ending_liability, 0),
                    remaining_asset, depreciation, Max(ending_asset, 0),
                    interest_expense + depreciation)>>
            \o ifrs16_periods_from_initial_balances(payment_schedule, period_rate,
                              depreciation_per_period, k + 1,
                              remaining_liability, remaining_asset)

(* The loop of _generate_ifrs16_schedule from period k on.                 *)
RECURSIVE ifrs16_periods(_, _, _, _, _, _)
ifrs16_periods(payment_schedule, period_rate, depreciation_per_period, k, remaining_liability, remaining_asset) ==
    IF k > Len(payment_schedule) THEN <<>>
    ELSE LET payment_amount == payment_schedule[k].amount
             interest_expense == Quantize(remaining_liability * period_rate.num,
                                          period_rate.den, Mill)
             principal_reduction == payment_amount - interest_expense
             ending_liability == remaining_liability - principal_reduction
             depreciation == IF k = Len(payment_schedule) THEN remaining_asset
                             ELSE depreciation_per_period
             ending_asset == remaining_asset - depreciation
         IN <<Entry(k, payment_schedule[k].due_date, payment_amount, interest_expense,
                    principal_reduction, remaining_liability, Max(ending_liability, 0),
                    remaining_asset, depreciation, Max(ending_asset, 0),
                    interest_expense + depreciation)>>
            \o ifrs16_periods(payment_schedule, period_rate, depreciation_per_period,
                              k + 1, Max(ending_liability, 0), Max(ending_asset, 0))

_generate_ifrs16_schedule(rou_asset, lease_liability, payment_schedule, period_rate) ==
    ifrs16_periods(payment_schedule, period_rate,
                   Quantize(rou_asset, Len(payment_schedule), Mill), 1,
                   lease_liability, rou_asset)

(***************************************************************************)
(* app/services/utils.py: make_json_safe.  A Decimal becomes a float and a *)
(* date its ISO string; both are kept apart from the values they came from *)
(* by a tag.  (A float holds the amounts of the model exactly: they have   *)
(* far fewer than 15 significant digits.)                                  *)
(***************************************************************************)
to_float(x) == [float |-> x]

isoformat(d) == [iso |-> d]

make_json_safe_entry(e) ==
    [period |-> e.period, period_date |-> isoformat(e.period_date),
     lease_payment |-> to_float(e.lease_payment),
     interest_expense |-> to_float(e.interest_expense),
     principal_reduction |-> to_float(e.principal_reduction),
     lease_liability_beginning |-> to_float(e.lease_liability_beginning),
     lease_liability_ending |-> to_float(e.lease_liability_ending),
     rou_asset_beginning |-> to_float(e.rou_asset_beginning),
     amortization |-> to_float(e.amortization),
     rou_asset_ending |-> to_float(e.rou_asset_ending),
     total_expense |-> to_float(e.total_expense)]

make_json_safe(entries) == [k \in 1..Len(entries) |-> make_json_safe_entry(entries[k])]

(* sum(e[field] for e in entries)                                          *)
RECURSIVE sum_field(_, _)
sum_field(entries, field) ==
    IF entries = <<>> THEN 0
    ELSE Head(entries)[field] + sum_field(Tail(entries), field)

(* The filter left out: the initial entry is kept.                         *)
actual_entries_unfiltered(entries) == entries

(* actual_entries = [e for e in entries if e["period"] > 0]                *)
actual_entries(entries) == SelectSeq(entries, LAMBDA e : e.period > 0)

(* The LeaseScheduleEntry objects generate_schedule adds, one per JSON-safe *)
(* dictionary, in the order of the loop.                                   *)
entry_objects(lease_id, schedule_type, entries) ==
    [k \in 1..Len(entries) |->
        [lease_id |-> lease_id, schedule_type |-> schedule_type, data |-> entries[k]]]

(* ASC842Calculator.generate_schedule after fetch_payments_from_db, up to  *)
(* its db.add calls: the ASC842Schedule object and the LeaseScheduleEntry  *)
(* objects it hands to the session.                                        *)
ASC842_generate_schedule(lease, payment_schedule) ==
    LET period_rate == calculate_period_rate_from_payments(
                           lease.incremental_borrowing_rate, payment_schedule)
        im == calculate_initial_measurements(lease,
                  calculate_present_value_from_payments(lease, payment_schedule, period_rate))
        entries == IF lease.classification = "finance"
                   THEN _generate_finance_lease_schedule(lease, im.rou_asset,
                            im.lease_liability, payment_schedule, period_rate)
                   ELSE _generate_operating_lease_schedule(lease, im.rou_asset,
                            im.lease_liability, payment_schedule, period_rate)
        actual == actual_entries(entries)
        safe == make_json_safe(entries)
    IN [schedule |->
            [lease_id |-> lease.id,
             initial_rou_asset |-> im.rou_asset,
             initial_lease_liability |-> im.lease_liability,
             total_payments |-> sum_field(actual, "lease_payment"),
             total_interest |-> sum_field(actual, "interest_expense"),
             total_amortization |-> sum_field(actual, "amortization"),
             schedule_data |-> [entries |-> safe,
                                payment_count |-> Len(payment_schedule)]],
        entries |-> entry_objects(lease.id, "ASC842", actual_entries(safe))]

(* IFRS16Calculator.generate_schedule, likewise.                           *)
IFRS16_generate_schedule(lease, payment_schedule) ==
    LET period_rate == calculate_period_rate_from_payments(
                           lease.discount_rate[1], payment_schedule)
        im == calculate_initial_measurements(lease,
                  calculate_present_value(lease, payment_schedule, period_rate))
        entries == _generate_ifrs16_schedule(im.rou_asset, im.lease_liability,
                                            payment_schedule, period_rate)
        safe == make_json_safe(entries)
    IN [schedule |->
            [lease_id |-> lease.id,
             initial_rou_asset |-> im.rou_asset,
             initial_lease_liability |-> im.lease_liability,
             total_payments |-> sum_field(entries, "lease_payment"),
             total_interest |-> sum_field(entries, "interest_expense"),
             total_depreciation |-> sum_field(entries, "amortization"),
             schedule_data |-> [entries |-> safe]],
        entries |-> entry_objects(lease.id, "IFRS16", safe)]

(***************************************************************************)
(* The database (app/models) and the requests in flight.                   *)
(*                                                                         *)
(* leases                  table "leases": a set of rows, keyed by id      *)
(* lease_id_seq            the serial behind leases.id                     *)
(* payments                table "payments": its rows in heap order, the   *)
(*                         order in which rows of equal due_date come out  *)
(*                         of ORDER BY due_date                            *)
(* asc842_schedules        table "asc842_schedules": a bag of rows         *)
(* ifrs16_schedules        table "ifrs16_schedules": a bag of rows         *)
(* lease_schedule_entries  table "lease_schedule_entries": a bag of rows   *)
(* session                 the SQLAlchemy session of the generation in     *)
(*                         flight, if one is                               *)
(* response                the response to the last request, once sent     *)
(* generated               history: for a lease and a standard, the rows   *)
(*                         of the first generation committed since the     *)
(*                         lease's payments last changed                   *)
(***************************************************************************)
VARIABLES leases, lease_id_seq, payments, asc842_schedules, ifrs16_schedules, lease_schedule_entries, session, response, generated

vars == <<leases, lease_id_seq, payments, asc842_schedules, ifrs16_schedules, lease_schedule_entries, session, response, generated>>

tables == <<leases, lease_id_seq, payments, asc842_schedules, ifrs16_schedules, lease_schedule_entries>>

Standards == {"ASC842", "IFRS16"}

(* A response: the request it answers, its status, the detail of an error  *)
(* and the rows of its body.                                               *)
Response(op, standard, id, status, detail, body) ==
    [op |-> op, standard |-> standard, id |-> id, status |-> status,
     detail |-> detail, body |-> body]

(* No response yet: the request is in flight.                              *)
NoResponse == Response("none", "", 0, 0, "", <<>>)

(* str(lease.id), the form in which payments.contract_id names a lease.    *)
str(n) == [str |-> n]

(* Column types.  Numeric(15, 2) and Numeric(12, 2) round what they are    *)
(* given to two decimals, a tie away from zero; Date parses an ISO string; *)
(* DateTime.date() drops the time of day.                                  *)
numeric_2(x) == Quantize(x, 1, Cent)

numeric_2_of_float(x) == numeric_2(x.float)

fromisoformat(s) == s.iso

date(due_date) == due_date \div TicksPerDay

(***************************************************************************)
(* app/api/v1/leases.py                                                    *)
(***************************************************************************)

(* The lease terms a client may post.                                      *)
LeaseDates == {<<0, 1>>, <<1, 1>>}

LeaseRates == {<<0, NULL>>, <<30, Some(30)>>}

LeaseCreate ==
    [classification : {"finance", "operating"},
     dates : LeaseDates,
     rates : LeaseRates]

(* The update a client may put: the fields it sets (exclude_unset), a date *)
(* field set to null or to a date, the classification to a value.          *)
UpdateDates == {0, 1, 2}

DateUpdate ==
    UNION {[keys -> {NULL} \cup {Some(d) : d \in UpdateDates}] :
           keys \in SUBSET {"commencement_date", "end_date"}}

LeaseUpdate ==
    DateUpdate \cup
    {[key \in DOMAIN update_data \cup {"classification"} |->
         IF key = "classification" THEN Some(c) ELSE update_data[key]] :
       update_data \in DateUpdate, c \in {"finance", "operating"}}

(* update_data.get(key) or stored                                          *)
get_or(update_data, key, stored) ==
    IF key \in DOMAIN update_data /\ update_data[key] # NULL
    THEN update_data[key][1] ELSE stored

(* The end_date validated with the dates compared the other way round:     *)
(* an end_date on the commencement date passes.                            *)
validate_lease_dates_not_before(commencement_date, end_date) ==
    ~(end_date < commencement_date)

(* _validate_lease_dates raises 422 unless end_date > commencement_date.   *)
validate_lease_dates(commencement_date, end_date) == ~(end_date <= commencement_date)

(* POST /leases                                                            *)
create_lease(lease_data) ==
    /\ session = NULL
    /\ lease_id_seq < MaxLeases
    /\ IF ~validate_lease_dates(lease_data.dates[1], lease_data.dates[2])
       THEN /\ response' = Response("create_lease", "", 0, 422,
                                    "end_date must be after commencement_date", <<>>)
            /\ UNCHANGED <<tables, session, generated>>
       ELSE LET lease == [id |-> lease_id_seq + 1,
                          classification |-> lease_data.classification,
                          commencement_date |-> lease_data.dates[1],
                          end_date |-> lease_data.dates[2],
                          incremental_borrowing_rate |-> lease_data.rates[1],
                          discount_rate |-> lease_data.rates[2],
                          initial_direct_costs |-> numeric_2(0),
                          prepaid_rent |-> numeric_2(0),
                          lease_incentives |-> numeric_2(0),
                          residual_value |-> numeric_2(0)]
            IN /\ leases' = leases \cup {lease}
               /\ lease_id_seq' = lease_id_seq + 1
               /\ response' = Response("create_lease", "", lease.id, 201, "", <<lease>>)
               /\ UNCHANGED <<payments, asc842_schedules, ifrs16_schedules,
                              lease_schedule_entries, session, generated>>

(* PUT /leases/{lease_id}: 404 without the lease; 422 when end_date is set *)
(* to null or the dates, the stored one taken for the one not supplied, do *)
(* not validate; then every supplied field is set and committed.  A        *)
(* commencement_date set to null passes the validation with the stored     *)
(* date and fails the commit on the NOT NULL column (500, rolled back).    *)
update_lease(lease_id, update_data) ==
    /\ session = NULL
    /\ IF ~(\E l \in leases : l.id = lease_id)
       THEN /\ response' = Response("update_lease", "", lease_id, 404, "Lease not found", <<>>)
            /\ UNCHANGED <<tables, session, generated>>
       ELSE LET lease == CHOOSE l \in leases : l.id = lease_id
                commencement_date == get_or(update_data, "commencement_date",
                                            lease.commencement_date)
                end_date == get_or(update_data, "end_date", lease.end_date)
                updated == [lease EXCEPT
                               !.commencement_date = commencement_date,
                               !.end_date = end_date,
                               !.classification =
                                   get_or(update_data, "classification", @)]
            IN IF "end_date" \in DOMAIN update_data /\ update_data.end_date = NULL
               THEN /\ response' = Response("update_lease", "", lease_id, 422,
                                            "end_date is required", <<>>)
                    /\ UNCHANGED <<tables, session, generated>>
               ELSE IF /\ DOMAIN update_data \cap {"end_date", "commencement_date"} # {}
                       /\ ~validate_lease_dates(commencement_date, end_date)
               THEN /\ response' = Response("update_lease", "", lease_id, 422,
                                            "end_date must be after commencement_date", <<>>)
                    /\ UNCHANGED <<tables, session, generated>>
               ELSE IF /\ "commencement_date" \in DOMAIN update_data
                       /\ update_data.commencement_date = NULL
               THEN /\ response' = Response("update_lease", "", lease_id, 500,
                                            "IntegrityError", <<>>)
                    /\ UNCHANGED <<tables, session, generated>>
               ELSE /\ leases' = (leases \ {lease}) \cup {updated}
                    /\ generated' = {g \in generated : g.lease_id # lease_id}
                    /\ response' = Response("update_lease", "", lease_id, 200, "",
                                            <<updated>>)
                    /\ UNCHANGED <<lease_id_seq, payments, asc842_schedules,
                                   ifrs16_schedules, lease_schedule_entries, session>>

(* The rows of a bag that belong to a lease (and a schedule type).         *)
rows_of_lease(bag, lease_id) == {r \in BagToSet(bag) : r.lease_id = lease_id}

entries_of(bag, lease_id, schedule_type) ==
    {r \in BagToSet(bag) : r.lease_id = lease_id /\ r.schedule_type = schedule_type}

(* A bag without the rows of a set.                                        *)
delete_rows(bag, rows) ==
    LET keep == BagToSet(bag) \ rows
    IN [r \in keep |-> bag[r]]

(* The delete without the cascade of the relationships: only the lease row *)
(* goes.                                                                   *)
delete_lease_without_cascade(lease_id) ==
    /\ session = NULL
    /\ IF ~(\E l \in leases : l.id = lease_id)
       THEN /\ response' = Response("delete_lease", "", lease_id, 404, "Lease not found", <<>>)
            /\ UNCHANGED <<tables, session, generated>>
       ELSE /\ leases' = {l \in leases : l.id # lease_id}
            /\ generated' = {g \in generated : g.lease_id # lease_id}
            /\ response' = Response("delete_lease", "", lease_id, 204, "", <<>>)
            /\ UNCHANGED <<lease_id_seq, payments, asc842_schedules, ifrs16_schedules,
                           lease_schedule_entries, session>>

(* DELETE /leases/{lease_id}: the relationships of Lease cascade the       *)
(* delete to its schedules and entries (cascade="all, delete-orphan").     *)
delete_lease(lease_id) ==
    /\ session = NULL
    /\ IF ~(\E l \in leases : l.id = lease_id)
       THEN /\ response' = Response("delete_lease", "", lease_id, 404, "Lease not found", <<>>)
            /\ UNCHANGED <<tables, session, generated>>
       ELSE /\ leases' = {l \in leases : l.id # lease_id}
            /\ asc842_schedules' =
                   delete_rows(asc842_schedules, rows_of_lease(asc842_schedules, lease_id))
            /\ ifrs16_schedules' =
                   delete_rows(ifrs16_schedules, rows_of_lease(ifrs16_schedules, lease_id))
            /\ lease_schedule_entries' =
                   delete_rows(lease_schedule_entries,
                               rows_of_lease(lease_schedule_entries, lease_id))
            /\ generated' = {g \in generated : g.lease_id # lease_id}
            /\ response' = Response("delete_lease", "", lease_id, 204, "", <<>>)
            /\ UNCHANGED <<lease_id_seq, payments, session>>

(***************************************************************************)
(* app/api/v1/payments.py                                                  *)
(***************************************************************************)

(* The amounts (gt=0) and due datetimes a client may post.                 *)
Amounts == {10, 100000}

DueDates == {0}

PaymentIds == 1..MaxPayments

(* s with x put in at position i, 1 <= i <= Len(s) + 1.                    *)
insert_at(s, i, x) == SubSeq(s, 1, i - 1) \o <<x>> \o SubSeq(s, i, Len(s))

remove_at(s, i) == SubSeq(s, 1, i - 1) \o SubSeq(s, i + 1, Len(s))

(* POST /payments: the new row gets a fresh id and a place in the heap.    *)
create_payment(contract_id, amount, due_date) ==
    /\ session = NULL
    /\ Len(payments) < MaxPayments
    /\ LET used == {payments[i].id : i \in 1..Len(payments)}
           id == CHOOSE n \in PaymentIds : n \notin used /\ \A m \in PaymentIds \ used : n <= m
           row == [id |-> id, contract_id |-> contract_id,
                   amount |-> numeric_2(amount), due_date |-> due_date,
                   status |-> "Scheduled", paid_date |-> NULL]
       IN /\ \E i \in 1..(Len(payments) + 1) : payments' = insert_at(payments, i, row)
          /\ response' = Response("create_payment", "", id, 201, "", <<row>>)
    /\ generated' = {g \in generated : str(g.lease_id) # contract_id}
    /\ UNCHANGED <<leases, lease_id_seq, asc842_schedules, ifrs16_schedules,
                   lease_schedule_entries, session>>

(* The update a client may put on a payment: the fields it sets.           *)
UpdateDueDates == {0, 60 * TicksPerDay}

PaymentUpdate ==
    {update_data \in UNION {[keys -> Amounts \cup UpdateDueDates] :
                               keys \in SUBSET {"amount", "due_date"}} :
        /\ "amount" \in DOMAIN update_data => update_data.amount \in Amounts
        /\ "due_date" \in DOMAIN update_data => update_data.due_date \in UpdateDueDates}

(* The row with the supplied fields set (setattr for each of them).        *)
set_fields(row, update_data) ==
    [row EXCEPT
        !.amount = IF "amount" \in DOMAIN update_data
                   THEN numeric_2(update_data.amount) ELSE @,
        !.due_date = IF "due_date" \in DOMAIN update_data
                     THEN update_data.due_date ELSE @]

(* The update that also clears the stored schedule entries.                *)
update_payment_clearing_entries(payment_id, update_data) ==
    /\ session = NULL
    /\ IF ~(\E i \in 1..Len(payments) : payments[i].id = payment_id)
       THEN /\ response' = Response("update_payment", "", payment_id, 404,
                                    "Payment not found", <<>>)
            /\ UNCHANGED <<payments, generated, lease_schedule_entries>>
       ELSE /\ \E i \in 1..Len(payments) :
                  /\ payments[i].id = payment_id
                  /\ payments' = [payments EXCEPT ![i] = set_fields(@, update_data)]
                  /\ generated' = {g \in generated :
                                       str(g.lease_id) # payments[i].contract_id}
                  /\ response' = Response("update_payment", "", payment_id, 200, "",
                                          <<set_fields(payments[i], update_data)>>)
            /\ lease_schedule_entries' = EmptyBag
    /\ UNCHANGED <<leases, lease_id_seq, asc842_schedules, ifrs16_schedules, session>>

(* PUT /payments/{payment_id}                                              *)
update_payment(payment_id, update_data) ==
    /\ session = NULL
    /\ IF ~(\E i \in 1..Len(payments) : payments[i].id = payment_id)
       THEN /\ response' = Response("update_payment", "", payment_id, 404,
                                    "Payment not found", <<>>)
            /\ UNCHANGED <<payments, generated>>
       ELSE \E i \in 1..Len(payments) :
               /\ payments[i].id = payment_id
               /\ payments' = [payments EXCEPT ![i] = set_fields(@, update_data)]
               /\ generated' = {g \in generated :
                                    str(g.lease_id) # payments[i].contract_id}
               /\ response' = Response("update_payment", "", payment_id, 200, "",
                                       <<set_fields(payments[i], update_data)>>)
    /\ UNCHANGED <<leases, lease_id_seq, asc842_schedules, ifrs16_schedules,
                   lease_schedule_entries, session>>

(* The instants datetime.now() may return.                                 *)
Now == {1}

(* POST /payments/{payment_id}/mark-paid: status "Paid", paid_date the one *)
(* given or datetime.now().                                                *)
mark_payment_as_paid(payment_id, paid_date) ==
    /\ session = NULL
    /\ IF ~(\E i \in 1..Len(payments) : payments[i].id = payment_id)
       THEN /\ response' = Response("mark_payment_as_paid", "", payment_id, 404,
                                    "Payment not found", <<>>)
            /\ UNCHANGED <<payments, generated>>
       ELSE \E i \in 1..Len(payments), now \in Now :
               LET paid == [payments[i] EXCEPT
                               !.status = "Paid",
                               !.paid_date = IF paid_date # NULL THEN paid_date
                                             ELSE Some(now)]
               IN /\ payments[i].id = payment_id
                  /\ payments' = [payments EXCEPT ![i] = paid]
                  /\ generated' = {g \in generated :
                                       str(g.lease_id) # payments[i].contract_id}
                  /\ response' = Response("mark_payment_as_paid", "", payment_id, 200,
                                          "", <<paid>>)
    /\ UNCHANGED <<leases, lease_id_seq, asc842_schedules, ifrs16_schedules,
                   lease_schedule_entries, session>>

(* DELETE /payments/{payment_id}                                           *)
delete_payment(payment_id) ==
    /\ session = NULL
    /\ IF ~(\E i \in 1..Len(payments) : payments[i].id = payment_id)
       THEN /\ response' = Response("delete_payment", "", payment_id, 404,
                                    "Payment not found", <<>>)
            /\ UNCHANGED <<payments, generated>>
       ELSE /\ \E i \in 1..Len(payments) :
                  /\ payments[i].id = payment_id
                  /\ payments' = remove_at(payments, i)
                  /\ generated' = {g \in generated :
                                       str(g.lease_id) # payments[i].contract_id}
            /\ response' = Response("delete_payment", "", payment_id, 204, "", <<>>)
    /\ UNCHANGED <<leases, lease_id_seq, asc842_schedules, ifrs16_schedules,
                   lease_schedule_entries, session>>

(***************************************************************************)
(* fetch_payments_from_db (both calculators)                               *)
(***************************************************************************)

(* ORDER BY due_date: ascending datetimes, rows of equal due_date in heap  *)
(* order.                                                                  *)
RECURSIVE order_by_due_date(_)
order_by_due_date(rows) ==
    IF rows = <<>> THEN <<>>
    ELSE LET first == CHOOSE i \in 1..Len(rows) :
                          /\ \A j \in 1..Len(rows) : rows[i].due_date <= rows[j].due_date
                          /\ \A j \in 1..(i - 1) : rows[j].due_date # rows[i].due_date
         IN <<rows[first]>> \o order_by_due_date(remove_at(rows, first))

(* The query without its filter: the payments of every contract.           *)
query_payments_unfiltered(lease) == order_by_due_date(payments)

(* db.query(Payments).filter(contract_id == str(lease.id))                 *)
(*   .order_by(Payments.due_date).all()                                    *)
query_payments(lease) ==
    order_by_due_date(SelectSeq(payments, LAMBDA p : p.contract_id = str(lease.id)))

(* The payment_schedule built from the rows; the caller raises ValueError  *)
(* when there is no row.                                                   *)
fetch_payments_from_db(lease) ==
    LET rows == query_payments(lease)
    IN [k \in 1..Len(rows) |->
           [amount |-> rows[k].amount, due_date |-> date(rows[k].due_date),
            payment_id |-> rows[k].id]]

(***************************************************************************)
(* app/api/v1/schedules.py                                                 *)
(***************************************************************************)
schedules_table(standard) ==
    IF standard = "ASC842" THEN asc842_schedules ELSE ifrs16_schedules

(* The row a Numeric(15, 2) table stores for a schedule object.            *)
schedule_row(standard, o) ==
    IF standard = "ASC842"
    THEN [lease_id |-> o.lease_id,
          initial_rou_asset |-> numeric_2(o.initial_rou_asset),
          initial_lease_liability |-> numeric_2(o.initial_lease_liability),
          total_payments |-> numeric_2(o.total_payments),
          total_interest |-> numeric_2(o.total_interest),
          total_amortization |-> numeric_2(o.total_amortization),
          schedule_data |-> o.schedule_data]
    ELSE [lease_id |-> o.lease_id,
          initial_rou_asset |-> numeric_2(o.initial_rou_asset),
          initial_lease_liability |-> numeric_2(o.initial_lease_liability),
          total_payments |-> numeric_2(o.total_payments),
          total_interest |-> numeric_2(o.total_interest),
          total_depreciation |-> numeric_2(o.total_depreciation),
          schedule_data |-> o.schedule_data]

(* The row lease_schedule_entries stores for a LeaseScheduleEntry object.  *)
entry_row(o) ==
    [lease_id |-> o.lease_id, schedule_type |-> o.schedule_type,
     period |-> o.data.period,
     period_date |-> fromisoformat(o.data.period_date),
     lease_payment |-> numeric_2_of_float(o.data.lease_payment),
     interest_expense |-> numeric_2_of_float(o.data.interest_expense),
     principal_reduction |-> numeric_2_of_float(o.data.principal_reduction),
     lease_liability_beginning |-> numeric_2_of_float(o.data.lease_liability_beginning),
     lease_liability_ending |-> numeric_2_of_float(o.data.lease_liability_ending),
     rou_asset_beginning |-> numeric_2_of_float(o.data.rou_asset_beginning),
     amortization |-> numeric_2_of_float(o.data.amortization),
     rou_asset_ending |-> numeric_2_of_float(o.data.rou_asset_ending),
     total_expense |-> numeric_2_of_float(o.data.total_expense)]

(* The check left out: no schedule is ever found.                          *)
existing_schedule_unchecked(standard, lease_id) == {}

(* existing_schedule = db.query(Schedule).filter(lease_id == lease_id)     *)
existing_schedule(standard, lease_id) ==
    rows_of_lease(schedules_table(standard), lease_id)

(* The session a generation opens: the objects handed to db.add and not    *)
(* yet inserted, and the rows inserted in the open transaction.            *)
Session(standard, lease, payment_schedule, objects) ==
    [standard |-> standard, lease_id |-> lease.id,
     payment_count |-> Len(payment_schedule),
     new_schedule |-> Some(objects.schedule), new_entries |-> objects.entries,
     schedule_rows |-> <<>>, entry_rows |-> <<>>]

(* POST /schedules/{standard}/{lease_id} up to the db.commit() of          *)
(* generate_schedule: 404 without the lease, 400 with a schedule of the    *)
(* standard; ValueError (no payments) and TypeError (discount_rate None    *)
(* divided by 100) are not handled and end the request with 500.           *)
generate(standard, lease_id) ==
    /\ session = NULL
    /\ UNCHANGED <<tables, generated>>
    /\ IF ~(\E l \in leases : l.id = lease_id)
       THEN /\ response' = Response("generate", standard, lease_id, 404,
                                    "Lease not found", <<>>)
            /\ UNCHANGED session
       ELSE IF existing_schedule(standard, lease_id) # {}
       THEN /\ response' = Response("generate", standard, lease_id, 400,
                                    "schedule already exists", <<>>)
            /\ UNCHANGED session
       ELSE LET lease == CHOOSE l \in leases : l.id = lease_id
                payment_schedule == fetch_payments_from_db(lease)
            IN IF payment_schedule = <<>>
               THEN /\ response' = Response("generate", standard, lease_id, 500,
                                            "ValueError: No payments found", <<>>)
                    /\ UNCHANGED session
               ELSE IF standard = "IFRS16" /\ lease.discount_rate = NULL
               THEN /\ response' = Response("generate", standard, lease_id, 500,
                                            "TypeError", <<>>)
                    /\ UNCHANGED session
               ELSE /\ session' = Some(Session(standard, lease, payment_schedule,
                          IF standard = "ASC842"
                          THEN ASC842_generate_schedule(lease, payment_schedule)
                          ELSE IFRS16_generate_schedule(lease, payment_schedule)))
                    /\ response' = NoResponse

generate_asc842_schedule(lease_id) == generate("ASC842", lease_id)

generate_ifrs16_schedule(lease_id) == generate("IFRS16", lease_id)

(* db.commit() flushes the new objects: the schedule by one INSERT, the    *)
(* entries in the order they were added.                                   *)
flush_schedule ==
    /\ session # NULL
    /\ session[1].new_schedule # NULL
    /\ session' = Some([session[1] EXCEPT
           !.new_schedule = NULL,
           !.schedule_rows = <<schedule_row(session[1].standard, session[1].new_schedule[1])>>])
    /\ UNCHANGED <<tables, response, generated>>

(* The entry committed by its own INSERT, outside the transaction.         *)
flush_entry_autocommit ==
    /\ session # NULL
    /\ session[1].new_entries # <<>>
    /\ session' = Some([session[1] EXCEPT !.new_entries = Tail(session[1].new_entries)])
    /\ lease_schedule_entries' =
           lease_schedule_entries (+) SetToBag({entry_row(Head(session[1].new_entries))})
    /\ UNCHANGED <<leases, lease_id_seq, payments, asc842_schedules, ifrs16_schedules,
                   response, generated>>

flush_entry ==
    /\ session # NULL
    /\ session[1].new_entries # <<>>
    /\ session' = Some([session[1] EXCEPT
           !.new_entries = Tail(session[1].new_entries),
           !.entry_rows = Append(session[1].entry_rows,
                                 entry_row(Head(session[1].new_entries)))])
    /\ UNCHANGED <<tables, response, generated>>

(* A sequence of rows as a bag.                                            *)
RECURSIVE SeqToBag(_)
SeqToBag(rows) ==
    IF rows = <<>> THEN EmptyBag
    ELSE SetToBag({Head(rows)}) (+) SeqToBag(Tail(rows))

(* The COMMIT that also clears the lease's entries of the other standard.  *)
commit_replacing_entries ==
    /\ session # NULL
    /\ session[1].new_schedule = NULL
    /\ session[1].new_entries = <<>>
    /\ asc842_schedules' = IF session[1].standard = "ASC842"
                           THEN asc842_schedules (+) SeqToBag(session[1].schedule_rows)
                           ELSE asc842_schedules
    /\ ifrs16_schedules' = IF session[1].standard = "IFRS16"
                           THEN ifrs16_schedules (+) SeqToBag(session[1].schedule_rows)
                           ELSE ifrs16_schedules
    /\ lease_schedule_entries' =
           delete_rows(lease_schedule_entries,
                       rows_of_lease(lease_schedule_entries, session[1].lease_id))
               (+) SeqToBag(session[1].entry_rows)
    /\ session' = NULL
    /\ response' = Response("generate", session[1].standard, session[1].lease_id, 201,
                            "", session[1].schedule_rows)
    /\ generated' =
           IF \E g \in generated : /\ g.lease_id = session[1].lease_id
                                    /\ g.standard = session[1].standard
           THEN generated
           ELSE generated \cup {[lease_id |-> session[1].lease_id,
                                 standard |-> session[1].standard,
                                 schedule_rows |-> SeqToBag(session[1].schedule_rows),
                                 entry_rows |-> SeqToBag(session[1].entry_rows)]}
    /\ UNCHANGED <<leases, lease_id_seq, payments>>

(* The COMMIT that ends db.commit(), and the 201 with the refreshed row.   *)
commit ==
    /\ session # NULL
    /\ session[1].new_schedule = NULL
    /\ session[1].new_entries = <<>>
    /\ asc842_schedules' = IF session[1].standard = "ASC842"
                           THEN asc842_schedules (+) SeqToBag(session[1].schedule_rows)
                           ELSE asc842_schedules
    /\ ifrs16_schedules' = IF session[1].standard = "IFRS16"
                           THEN ifrs16_schedules (+) SeqToBag(session[1].schedule_rows)
                           ELSE ifrs16_schedules
    /\ lease_schedule_entries' = lease_schedule_entries (+) SeqToBag(session[1].entry_rows)
    /\ session' = NULL
    /\ response' = Response("generate", session[1].standard, session[1].lease_id, 201,
                            "", session[1].schedule_rows)
    /\ generated' =
           IF \E g \in generated : /\ g.lease_id = session[1].lease_id
                                    /\ g.standard = session[1].standard
           THEN generated
           ELSE generated \cup {[lease_id |-> session[1].lease_id,
                                 standard |-> session[1].standard,
                                 schedule_rows |-> SeqToBag(session[1].schedule_rows),
                                 entry_rows |-> SeqToBag(session[1].entry_rows)]}
    /\ UNCHANGED <<leases, lease_id_seq, payments>>

(* db.commit() raises (an INSERT or the COMMIT fails): get_db closes the   *)
(* session, which rolls the open transaction back, and the request ends    *)
(* with 500.                                                               *)
rollback ==
    /\ session # NULL
    /\ session' = NULL
    /\ response' = Response("generate", session[1].standard, session[1].lease_id, 500,
                            "commit failed", <<>>)
    /\ UNCHANGED <<tables, generated>>

(* GET /schedules/{standard}/{lease_id}: .first() of the lease's rows.     *)
get_schedule(standard, lease_id) ==
    /\ session = NULL
    /\ LET rows == rows_of_lease(schedules_table(standard), lease_id)
       IN IF rows = {}
          THEN response' = Response("get_schedule", standard, lease_id, 404,
                                    "schedule not found", <<>>)
          ELSE \E r \in rows :
                  response' = Response("get_schedule", standard, lease_id, 200, "", <<r>>)
    /\ UNCHANGED <<tables, session, generated>>

(* The orders in which ORDER BY period may return the rows of a bag.       *)
RECURSIVE order_by_period(_)
order_by_period(bag) ==
    IF BagToSet(bag) = {} THEN {<<>>}
    ELSE LET least == {r \in BagToSet(bag) : \A q \in BagToSet(bag) : r.period <= q.period}
         IN UNION {{<<r>> \o rest : rest \in order_by_period(bag (-) SetToBag({r}))} :
                   r \in least}

(* GET /schedules/entries/{lease_id}/{standard}                            *)
get_entries(standard, lease_id) ==
    /\ session = NULL
    /\ LET rows == entries_of(lease_schedule_entries, lease_id, standard)
       IN IF rows = {}
          THEN response' = Response("get_entries", standard, lease_id, 404,
                                    "No schedule entries found", <<>>)
          ELSE \E body \in order_by_period([r \in rows |-> lease_schedule_entries[r]]) :
                  response' = Response("get_entries", standard, lease_id, 200, "", body)
    /\ UNCHANGED <<tables, session, generated>>

(* The delete that leaves the entries behind.                              *)
delete_schedule_keeps_entries(standard, lease_id) ==
    /\ session = NULL
    /\ LET rows == rows_of_lease(schedules_table(standard), lease_id)
       IN IF rows = {}
          THEN /\ response' = Response("delete_schedule", standard, lease_id, 404,
                                       "schedule not found", <<>>)
               /\ UNCHANGED <<asc842_schedules, ifrs16_schedules>>
          ELSE /\ \E r \in rows :
                     /\ asc842_schedules' = IF standard = "ASC842"
                                            THEN asc842_schedules (-) SetToBag({r})
                                            ELSE asc842_schedules
                     /\ ifrs16_schedules' = IF standard = "IFRS16"
                                            THEN ifrs16_schedules (-) SetToBag({r})
                                            ELSE ifrs16_schedules
               /\ response' = Response("delete_schedule", standard, lease_id, 204, "", <<>>)
    /\ UNCHANGED <<leases, lease_id_seq, payments, lease_schedule_entries, session,
                   generated>>

(* The delete that takes the lease's entries of every standard.            *)
delete_schedule_of_every_standard(standard, lease_id) ==
    /\ session = NULL
    /\ LET rows == rows_of_lease(schedules_table(standard), lease_id)
       IN IF rows = {}
          THEN /\ response' = Response("delete_schedule", standard, lease_id, 404,
                                       "schedule not found", <<>>)
               /\ UNCHANGED <<asc842_schedules, ifrs16_schedules, lease_schedule_entries>>
          ELSE /\ \E r \in rows :
                     /\ asc842_schedules' = IF standard = "ASC842"
                                            THEN asc842_schedules (-) SetToBag({r})
                                            ELSE asc842_schedules
                     /\ ifrs16_schedules' = IF standard = "IFRS16"
                                            THEN ifrs16_schedules (-) SetToBag({r})
                                            ELSE ifrs16_schedules
               /\ lease_schedule_entries' =
                      delete_rows(lease_schedule_entries,
                                  rows_of_lease(lease_schedule_entries, lease_id))
               /\ response' = Response("delete_schedule", standard, lease_id, 204, "", <<>>)
    /\ UNCHANGED <<leases, lease_id_seq, payments, session, generated>>

(* DELETE /schedules/{standard}/{lease_id}: every entry of the lease and   *)
(* the standard, and the schedule row .first() returned.                   *)
delete_schedule(standard, lease_id) ==
    /\ session = NULL
    /\ LET rows == rows_of_lease(schedules_table(standard), lease_id)
       IN IF rows = {}
          THEN /\ response' = Response("delete_schedule", standard, lease_id, 404,
                                       "schedule not found", <<>>)
               /\ UNCHANGED <<asc842_schedules, ifrs16_schedules, lease_schedule_entries>>
          ELSE /\ \E r \in rows :
                     /\ asc842_schedules' = IF standard = "ASC842"
                                            THEN asc842_schedules (-) SetToBag({r})
                                            ELSE asc842_schedules
                     /\ ifrs16_schedules' = IF standard = "IFRS16"
                                            THEN ifrs16_schedules (-) SetToBag({r})
                                            ELSE ifrs16_schedules
               /\ lease_schedule_entries' =
                      delete_rows(lease_schedule_entries,
                                  entries_of(lease_schedule_entries, lease_id, standard))
               /\ response' = Response("delete_schedule", standard, lease_id, 204, "", <<>>)
    /\ UNCHANGED <<leases, lease_id_seq, payments, session, generated>>

(***************************************************************************)
(* The service from an empty database, one request at a time.              *)
(***************************************************************************)
LeaseIds == 1..MaxLeases

Init ==
    /\ leases = {}
    /\ lease_id_seq = 0
    /\ payments = <<>>
    /\ asc842_schedules = EmptyBag
    /\ ifrs16_schedules = EmptyBag
    /\ lease_schedule_entries = EmptyBag
    /\ session = NULL
    /\ response = NoResponse
    /\ generated = {}

Next ==
    \/ \E lease_data \in LeaseCreate : create_lease(lease_data)
    \/ \E lease_id \in LeaseIds : delete_lease(lease_id)
    \/ \E lease_id \in LeaseIds, amount \in Amounts, due_date \in DueDates :
           create_payment(str(lease_id), amount, due_date)
    \/ \E payment_id \in PaymentIds : delete_payment(payment_id)
    \/ \E lease_id \in LeaseIds : generate_asc842_schedule(lease_id)
    \/ \E lease_id \in LeaseIds : generate_ifrs16_schedule(lease_id)
    \/ flush_schedule
    \/ flush_entry
    \/ commit
    \/ rollback
    \/ \E standard \in Standards, lease_id \in LeaseIds : get_schedule(standard, lease_id)
    \/ \E standard \in Standards, lease_id \in LeaseIds : get_entries(standard, lease_id)
    \/ \E standard \in Standards, lease_id \in LeaseIds : delete_schedule(standard, lease_id)

Spec == Init /\ [][Next]_vars

(***************************************************************************)
(* The schedules of one lease: the database holds a lease and its          *)
(* payments, drawn from the sets below, and the requests are those of      *)
(* app/api/v1/schedules.py.                                                *)
(***************************************************************************)

(* initial_direct_costs, prepaid_rent, lease_incentives, residual_value    *)
CalcAdjustments == {<<0, 0, 0, 0>>, <<0, 10000, 0, 0>>, <<3000, 0, 2000, 5000>>}

CalcRates == {0, 90}

CalcLeases ==
    {[id |-> 1, classification |-> c, commencement_date |-> 0, end_date |-> 1,
      incremental_borrowing_rate |-> r, discount_rate |-> Some(r),
      initial_direct_costs |-> a[1], prepaid_rent |-> a[2],
      lease_incentives |-> a[3], residual_value |-> a[4]] :
        c \in {"finance", "operating"}, r \in CalcRates, a \in CalcAdjustments}

CalcAmounts == {10, 100000}

(* The due datetime of the k-th row of the heap, by calendar: every row at *)
(* the same instant; a month apart; a year apart, the latest first; two    *)
(* rows on the first day and then a quarter apart.                         *)
CalcCalendars == {"same", "monthly", "yearly", "mixed"}

calc_due_date(calendar, k) ==
    IF calendar = "same" THEN 0
    ELSE IF calendar = "monthly" THEN (k - 1) * 30 * TicksPerDay
    ELSE IF calendar = "yearly" THEN (MaxCalcPayments - k) * 400 * TicksPerDay
    ELSE IF k = 1 THEN 0
    ELSE IF k = 2 THEN 1
    ELSE (k - 2) * 90 * TicksPerDay

CalcPayments ==
    UNION {{[k \in 1..n |-> [id |-> k, contract_id |-> str(1), amount |-> amounts[k],
                             due_date |-> calc_due_date(calendar, k),
                             status |-> "Scheduled", paid_date |-> NULL]] :
               amounts \in [1..n -> CalcAmounts], calendar \in CalcCalendars} :
           n \in 1..MaxCalcPayments}

InitCalc ==
    /\ leases \in {{l} : l \in CalcLeases}
    /\ lease_id_seq = 1
    /\ payments \in CalcPayments
    /\ asc842_schedules = EmptyBag
    /\ ifrs16_schedules = EmptyBag
    /\ lease_schedule_entries = EmptyBag
    /\ session = NULL
    /\ response = NoResponse
    /\ generated = {}

NextCalc ==
    \/ generate_asc842_schedule(1)
    \/ generate_ifrs16_schedule(1)
    \/ flush_schedule
    \/ flush_entry
    \/ commit
    \/ rollback
    \/ \E standard \in Standards : get_schedule(standard, 1)
    \/ \E standard \in Standards : get_entries(standard, 1)
    \/ \E standard \in Standards : delete_schedule(standard, 1)

SpecCalc == InitCalc /\ [][NextCalc]_vars

(***************************************************************************)
(* The leases router alone: leases are created, updated and deleted.       *)
(***************************************************************************)
NextLeases ==
    \/ \E lease_data \in LeaseCreate : create_lease(lease_data)
    \/ \E lease_id \in LeaseIds, update_data \in LeaseUpdate :
           update_lease(lease_id, update_data)
    \/ \E lease_id \in LeaseIds : delete_lease(lease_id)

SpecLeases == Init /\ [][NextLeases]_vars

(***************************************************************************)
(* Stored schedules against the requests that change their inputs: the     *)
(* database holds one lease with one payment; the lease and its payments   *)
(* are updated and deleted while schedules are generated, read and         *)
(* deleted.                                                                *)
(***************************************************************************)
InitWriteOnce ==
    /\ leases \in {{l} : l \in {c \in CalcLeases :
                                   /\ c.classification = "finance"
                                   /\ c.incremental_borrowing_rate = 90
                                   /\ c.prepaid_rent = 0
                                   /\ c.residual_value = 0}}
    /\ lease_id_seq = 1
    /\ payments \in {p \in CalcPayments : Len(p) = 1 /\ p[1].amount = 100000}
    /\ asc842_schedules = EmptyBag
    /\ ifrs16_schedules = EmptyBag
    /\ lease_schedule_entries = EmptyBag
    /\ session = NULL
    /\ response = NoResponse
    /\ generated = {}

NextWriteOnce ==
    \/ \E update_data \in {u \in LeaseUpdate : "commencement_date" \notin DOMAIN u} :
           update_lease(1, update_data)
    \/ delete_lease(1)
    \/ \E amount \in Amounts, due_date \in DueDates : create_payment(str(1), amount, due_date)
    \/ \E payment_id \in PaymentIds, update_data \in PaymentUpdate :
           update_payment(payment_id, update_data)
    \/ \E payment_id \in PaymentIds : delete_payment(payment_id)
    \/ \E payment_id \in PaymentIds, paid_date \in {NULL, Some(0)} :
           mark_payment_as_paid(payment_id, paid_date)
    \/ generate_asc842_schedule(1)
    \/ generate_ifrs16_schedule(1)
    \/ flush_schedule
    \/ flush_entry
    \/ commit
    \/ rollback
    \/ \E standard \in Standards : get_schedule(standard, 1)
    \/ \E standard \in Standards : delete_schedule(standard, 1)

SpecWriteOnce == InitWriteOnce /\ [][NextWriteOnce]_vars

(***************************************************************************)
(* Generation requests handled at the same time.  Each request has its own *)
(* session (get_db); session is then the sequence of the sessions open.    *)
(* A request reads the committed tables only: what another session has     *)
(* inserted and not committed it does not see.                             *)
(***************************************************************************)

(* POST /schedules/{standard}/{lease_id} up to the db.add calls, in a      *)
(* session of its own.                                                     *)
concurrent_generate(standard, lease_id) ==
    /\ Len(session) < MaxRequests
    /\ UNCHANGED <<tables, generated>>
    /\ IF ~(\E l \in leases : l.id = lease_id)
       THEN /\ response' = Response("generate", standard, lease_id, 404,
                                    "Lease not found", <<>>)
            /\ UNCHANGED session
       ELSE IF existing_schedule(standard, lease_id) # {}
       THEN /\ response' = Response("generate", standard, lease_id, 400,
                                    "schedule already exists", <<>>)
            /\ UNCHANGED session
       ELSE LET lease == CHOOSE l \in leases : l.id = lease_id
                payment_schedule == fetch_payments_from_db(lease)
            IN IF payment_schedule = <<>>
               THEN /\ response' = Response("generate", standard, lease_id, 500,
                                            "ValueError: No payments found", <<>>)
                    /\ UNCHANGED session
               ELSE IF standard = "IFRS16" /\ lease.discount_rate = NULL
               THEN /\ response' = Response("generate", standard, lease_id, 500,
                                            "TypeError", <<>>)
                    /\ UNCHANGED session
               ELSE /\ session' = Append(session,
                          Session(standard, lease, payment_schedule,
                              IF standard = "ASC842"
                              THEN ASC842_generate_schedule(lease, payment_schedule)
                              ELSE IFRS16_generate_schedule(lease, payment_schedule)))
                    /\ response' = NoResponse

(* The INSERTs of db.commit() in the i-th open session: the schedule and   *)
(* the entries in the order they were added.                               *)
concurrent_flush(i) ==
    /\ i \in 1..Len(session)
    /\ session[i].new_schedule # NULL
    /\ session' = [session EXCEPT ![i] = [@ EXCEPT
           !.new_schedule = NULL,
           !.new_entries = <<>>,
           !.schedule_rows = <<schedule_row(session[i].standard,
                                          session[i].new_schedule[1])>>,
           !.entry_rows = [k \in 1..Len(session[i].new_entries) |->
                              entry_row(session[i].new_entries[k])]]]
    /\ UNCHANGED <<tables, response, generated>>

(* The COMMIT of the i-th open session and its 201.                        *)
concurrent_commit(i) ==
    /\ i \in 1..Len(session)
    /\ session[i].new_schedule = NULL
    /\ asc842_schedules' = IF session[i].standard = "ASC842"
                           THEN asc842_schedules (+) SeqToBag(session[i].schedule_rows)
                           ELSE asc842_schedules
    /\ ifrs16_schedules' = IF session[i].standard = "IFRS16"
                           THEN ifrs16_schedules (+) SeqToBag(session[i].schedule_rows)
                           ELSE ifrs16_schedules
    /\ lease_schedule_entries' = lease_schedule_entries (+) SeqToBag(session[i].entry_rows)
    /\ session' = remove_at(session, i)
    /\ response' = Response("generate", session[i].standard, session[i].lease_id, 201,
                            "", session[i].schedule_rows)
    /\ UNCHANGED <<leases, lease_id_seq, payments, generated>>

InitConcurrent ==
    /\ leases \in {{l} : l \in {c \in CalcLeases : c.prepaid_rent = 0}}
    /\ lease_id_seq = 1
    /\ payments \in {p \in CalcPayments : Len(p) <= 2}
    /\ asc842_schedules = EmptyBag
    /\ ifrs16_schedules = EmptyBag
    /\ lease_schedule_entries = EmptyBag
    /\ session = <<>>
    /\ response = NoResponse
    /\ generated = {}

NextConcurrent ==
    \/ \E standard \in Standards : concurrent_generate(standard, 1)
    \/ \E i \in 1..MaxRequests : concurrent_flush(i)
    \/ \E i \in 1..MaxRequests : concurrent_commit(i)
    \/ \E standard \in Standards : get_schedule(standard, 1)
    \/ \E standard \in Standards : delete_schedule(standard, 1)

SpecConcurrent == InitConcurrent /\ [][NextConcurrent]_vars

(***************************************************************************)
(* The schedules of a lease over a longer term: equal payments, a month or *)
(* a quarter apart, up to MaxTermPayments of them, for a lease without     *)
(* adjustments, with a residual value far above its payments, or with      *)
(* lease incentives far above them.                                        *)
(***************************************************************************)

(* lease_incentives, residual_value                                        *)
TermAdjustments == {<<0, 0>>, <<0, 500000>>, <<500000, 0>>}

TermLeases ==
    {[id |-> 1, classification |-> c, commencement_date |-> 0, end_date |-> 1,
      incremental_borrowing_rate |-> r, discount_rate |-> Some(r),
      initial_direct_costs |-> 0, prepaid_rent |-> 0,
      lease_incentives |-> a[1], residual_value |-> a[2]] :
        c \in {"finance", "operating"}, r \in CalcRates, a \in TermAdjustments}

TermPayments ==
    UNION {{[k \in 1..n |-> [id |-> k, contract_id |-> str(1), amount |-> amount,
                             due_date |-> calc_due_date(calendar, k),
                             status |-> "Scheduled", paid_date |-> NULL]] :
               amount \in CalcAmounts, calendar \in {"monthly", "mixed"}} :
           n \in 1..MaxTermPayments}

InitTerm ==
    /\ leases \in {{l} : l \in TermLeases}
    /\ lease_id_seq = 1
    /\ payments \in TermPayments
    /\ asc842_schedules = EmptyBag
    /\ ifrs16_schedules = EmptyBag
    /\ lease_schedule_entries = EmptyBag
    /\ session = NULL
    /\ response = NoResponse
    /\ generated = {}

NextTerm ==
    \/ generate_asc842_schedule(1)
    \/ generate_ifrs16_schedule(1)
    \/ flush_schedule
    \/ flush_entry
    \/ commit
    \/ rollback
    \/ \E standard \in Standards : get_schedule(standard, 1)
    \/ \E standard \in Standards : delete_schedule(standard, 1)

SpecTerm == InitTerm /\ [][NextTerm]_vars

(***************************************************************************)
(* The schedules of a lease by the cadence of its payments: the payments   *)
(* follow each other at gaps of days drawn from RateGaps, the bounds of    *)
(* the monthly and the quarterly bucket and the days next to them.         *)
(***************************************************************************)
RateGaps == {0, 35, 36, 100, 101}

RateLeases ==
    {[id |-> 1, classification |-> c, commencement_date |-> 0, end_date |-> 1,
      incremental_borrowing_rate |-> 90, discount_rate |-> Some(90),
      initial_direct_costs |-> 0, prepaid_rent |-> 0,
      lease_incentives |-> 0, residual_value |-> 0] :
        c \in {"finance", "operating"}}

(* The due datetime of the k-th payment: the gaps before it, in ticks.     *)
rate_due_date(gaps, k) == SumSeq([i \in 1..(k - 1) |-> gaps[i]]) * TicksPerDay

RatePayments ==
    UNION {{[k \in 1..n |-> [id |-> k, contract_id |-> str(1), amount |-> 100000,
                             due_date |-> rate_due_date(gaps, k),
                             status |-> "Scheduled", paid_date |-> NULL]] :
               gaps \in [1..(n - 1) -> RateGaps]} :
           n \in 1..MaxCalcPayments}

InitRate ==
    /\ leases \in {{l} : l \in RateLeases}
    /\ lease_id_seq = 1
    /\ payments \in RatePayments
    /\ asc842_schedules = EmptyBag
    /\ ifrs16_schedules = EmptyBag
    /\ lease_schedule_entries = EmptyBag
    /\ session = NULL
    /\ response = NoResponse
    /\ generated = {}

SpecRate == InitRate /\ [][NextTerm]_vars

(***************************************************************************)
(* The schedules of a lease row written to the table directly, as the      *)
(* calculators' callers may (db.add(Lease(...))): its end date is after,   *)
(* on or before its commencement date, and it has up to two payments or    *)
(* none.                                                                   *)
(***************************************************************************)
StoredDates == {<<0, 1>>, <<1, 1>>, <<1, 0>>}

StoredLeases ==
    {[id |-> 1, classification |-> c, commencement_date |-> d[1], end_date |-> d[2],
      incremental_borrowing_rate |-> r, discount_rate |-> Some(r),
      initial_direct_costs |-> 0, prepaid_rent |-> 0,
      lease_incentives |-> 0, residual_value |-> 0] :
        c \in {"finance", "operating"}, r \in CalcRates, d \in StoredDates}

InitStored ==
    /\ leases \in {{l} : l \in StoredLeases}
    /\ lease_id_seq = 1
    /\ payments \in {<<>>} \cup {p \in CalcPayments : Len(p) <= 2}
    /\ asc842_schedules = EmptyBag
    /\ ifrs16_schedules = EmptyBag
    /\ lease_schedule_entries = EmptyBag
    /\ session = NULL
    /\ response = NoResponse
    /\ generated = {}

SpecStored == InitStored /\ [][NextTerm]_vars

(***************************************************************************)
(* The payments of one lease: payments are created, updated and deleted    *)
(* with the amounts the schemas accept (PaymentCreate: gt=0; PaymentUpdate: *)
(* any decimal), and the lease's schedules are generated from them.        *)
(***************************************************************************)

(* Amounts PaymentCreate accepts: 0.004 and 100.00.                        *)
CreateAmounts == {4, 100000}

(* Updates PaymentUpdate accepts that set the amount.                      *)
AmountUpdate == {[amount |-> amount] : amount \in {-100000, 0, 100000}}

InitPayments ==
    /\ leases \in {{l} : l \in {c \in CalcLeases : /\ c.initial_direct_costs = 0
                                                   /\ c.prepaid_rent = 0}}
    /\ lease_id_seq = 1
    /\ payments = <<>>
    /\ asc842_schedules = EmptyBag
    /\ ifrs16_schedules = EmptyBag
    /\ lease_schedule_entries = EmptyBag
    /\ session = NULL
    /\ response = NoResponse
    /\ generated = {}

NextPayments ==
    \/ \E amount \in CreateAmounts, due_date \in DueDates :
           create_payment(str(1), amount, due_date)
    \/ \E payment_id \in PaymentIds, update_data \in AmountUpdate :
           update_payment(payment_id, update_data)
    \/ \E payment_id \in PaymentIds : delete_payment(payment_id)
    \/ generate_asc842_schedule(1)
    \/ generate_ifrs16_schedule(1)
    \/ flush_schedule
    \/ flush_entry
    \/ commit
    \/ rollback
    \/ \E standard \in Standards : delete_schedule(standard, 1)

SpecPayments == InitPayments /\ [][NextPayments]_vars

(***************************************************************************)
(* Properties.                                                             *)
(***************************************************************************)

(* What the tables hold of a lease and a standard.                         *)
stored_schedules(standard, lease_id) ==
    LET rows == rows_of_lease(schedules_table(standard), lease_id)
    IN [r \in rows |-> schedules_table(standard)[r]]

stored_entries(standard, lease_id) ==
    LET rows == entries_of(lease_schedule_entries, lease_id, standard)
    IN [r \in rows |-> lease_schedule_entries[r]]

payment_rows_of(lease_id) ==
    SelectSeq(payments, LAMBDA p : p.contract_id = str(lease_id))

C2_DuplicateRejected ==
    /\ [][\A standard \in Standards, lease_id \in LeaseIds :
             (/\ \E l \in leases : l.id = lease_id
              /\ stored_schedules(standard, lease_id) # EmptyBag
              /\ generate(standard, lease_id))
             => /\ response'.status = 400
                /\ response'.detail = "schedule already exists"
                /\ session' = NULL
                /\ UNCHANGED tables]_vars
    /\ [](\A standard \in Standards, lease_id \in LeaseIds :
             BagCardinality(stored_schedules(standard, lease_id)) <= 1)

(* C2 happens: a second generation was refused while the first one's       *)
(* schedule is stored.                                                     *)
C2_Witness ==
    /\ response.op = "generate"
    /\ response.status = 400
    /\ BagCardinality(stored_schedules(response.standard, response.id)) = 1

(* The number of payments a stored schedule's generation read.             *)
payments_read(standard, row) ==
    IF standard = "ASC842" THEN row.schedule_data.payment_count
    ELSE Len(row.schedule_data.entries)

(* C3: in every committed state a lease has a schedule summary of a        *)
(* standard exactly when it has stored entries of that standard, and then  *)
(* as many entries as the generation read payments; this with generations  *)
(* that fail between their INSERTs.                                        *)
C3_AllOrNothing ==
    \A standard \in Standards, lease_id \in LeaseIds :
        /\ (stored_schedules(standard, lease_id) # EmptyBag)
               <=> (stored_entries(standard, lease_id) # EmptyBag)
        /\ \A row \in BagToSet(stored_schedules(standard, lease_id)) :
               BagCardinality(stored_entries(standard, lease_id))
                   = payments_read(standard, row)

(* C3 happens: a generation failed after its INSERTs (the transaction was  *)
(* rolled back) while the other standard's schedule of the lease stays     *)
(* stored with its entries.                                                *)
C3_Witness ==
    /\ response.op = "generate"
    /\ response.detail = "commit failed"
    /\ stored_schedules(response.standard, response.id) = EmptyBag
    /\ \E standard \in Standards :
           /\ stored_schedules(standard, response.id) # EmptyBag
           /\ BagCardinality(stored_entries(standard, response.id)) >= 1

(* C4: for a lease created through POST /leases that has no schedule of    *)
(* the standard, the generation request is accepted (no error response: it *)
(* goes on to its commit and 201), and a GET after the 201 answers 200.    *)
C4_GenerateSucceeds ==
    /\ [][\A standard \in Standards, lease_id \in LeaseIds :
             (/\ \E l \in leases : l.id = lease_id
              /\ stored_schedules(standard, lease_id) = EmptyBag
              /\ generate(standard, lease_id))
             => /\ session' # NULL
                /\ response' = NoResponse]_vars
    /\ [][(/\ response.op = "generate"
           /\ response.status = 201
           /\ get_schedule(response.standard, response.id))
          => response'.status = 200]_vars

(* The orders of a lease's payment rows that ascend by due date.           *)
ascending_orders(rows) ==
    {f \in [1..Len(rows) -> 1..Len(rows)] :
        /\ \A i, j \in 1..Len(rows) : i # j => f[i] # f[j]
        /\ \A i, j \in 1..Len(rows) :
               i < j => rows[f[i]].due_date <= rows[f[j]].due_date}

(* How many stored entries of a bag carry a period number.                 *)
entries_with_period(bag, k) ==
    BagCardinality([r \in {q \in BagToSet(bag) : q.period = k} |-> bag[r]])

RECURSIVE bag_sum(_, _)
bag_sum(bag, field) ==
    IF BagToSet(bag) = {} THEN 0
    ELSE LET r == CHOOSE q \in BagToSet(bag) : TRUE
         IN bag[r] * r[field] + bag_sum([q \in BagToSet(bag) \ {r} |-> bag[q]], field)

total_amortization_of(standard, row) ==
    IF standard = "ASC842" THEN row.total_amortization ELSE row.total_depreciation

(* C6: for every stored schedule, the stored entries' lease_payment sums   *)
(* to the sum of the payment amounts, and the summary's total_payments,    *)
(* total_interest and total_amortization (total_depreciation) equal the    *)
(* sums of lease_payment, interest_expense and amortization over the       *)
(* stored entries.                                                         *)
C6_TotalsMatchEntries ==
    \A standard \in Standards, lease_id \in LeaseIds :
        \A row \in BagToSet(stored_schedules(standard, lease_id)) :
            LET stored == stored_entries(standard, lease_id)
                rows == payment_rows_of(lease_id)
            IN /\ bag_sum(stored, "lease_payment")
                      = SumSeq([k \in 1..Len(rows) |-> rows[k].amount])
               /\ row.total_payments = bag_sum(stored, "lease_payment")
               /\ row.total_interest = bag_sum(stored, "interest_expense")
               /\ total_amortization_of(standard, row) = bag_sum(stored, "amortization")

(* The periods 1..n of a schedule as the engine generated them: the        *)
(* entries of its schedule_data, without the initial one.                  *)
generated_periods(row) == actual_entries(row.schedule_data.entries)

tolerance(standard) == IF standard = "ASC842" THEN Cent ELSE Mill

(* C7: in every generated schedule the last period's rou_asset_ending and  *)
(* lease_liability_ending are at most 0.01 (ASC 842) or 0.001 (IFRS 16).   *)
C7_FinalBalancesZero ==
    \A standard \in Standards, lease_id \in LeaseIds :
        \A row \in BagToSet(stored_schedules(standard, lease_id)) :
            LET last == generated_periods(row)[Len(generated_periods(row))]
            IN /\ last.rou_asset_ending.float <= tolerance(standard)
               /\ last.lease_liability_ending.float <= tolerance(standard)

(* The annual rate a standard takes from the lease.                        *)
annual_rate(standard, lease) ==
    IF standard = "ASC842" THEN lease.incremental_borrowing_rate
    ELSE lease.discount_rate[1]

liability_decreasing(periods) ==
    \A i \in 1..(Len(periods) - 1) :
        periods[i].lease_liability_ending.float > periods[i + 1].lease_liability_ending.float

interest_not_increasing(periods) ==
    \A i \in 1..(Len(periods) - 1) :
        periods[i].interest_expense.float >= periods[i + 1].interest_expense.float

(* C8: in every schedule generated with a positive rate, the ending lease  *)
(* liability of each period is greater than that of the next period.       *)
C8_LiabilityDecreasing ==
    \A standard \in Standards, lease \in leases :
        \A row \in BagToSet(stored_schedules(standard, lease.id)) :
            annual_rate(standard, lease) > 0 => liability_decreasing(generated_periods(row))

(* C9 as stated: in every generated schedule whose ending liability        *)
(* decreases strictly from period to period, the interest expense of a     *)
(* period is at least that of the next.                                    *)
C9_InterestNotIncreasing ==
    \A standard \in Standards, lease_id \in LeaseIds :
        \A row \in BagToSet(stored_schedules(standard, lease_id)) :
            liability_decreasing(generated_periods(row))
                => interest_not_increasing(generated_periods(row))

(* C9 amended: in every schedule generated with a non-negative rate whose  *)
(* liability decreases strictly from the initial lease liability through   *)
(* the ending liability of every period, the interest expense of a period  *)
(* is at least that of the next.                                           *)
C9_InterestNotIncreasingFromInitial ==
    \A standard \in Standards, lease \in leases :
        \A row \in BagToSet(stored_schedules(standard, lease.id)) :
            (/\ annual_rate(standard, lease) >= 0
             /\ generated_periods(row)[1].lease_liability_beginning.float
                    > generated_periods(row)[1].lease_liability_ending.float
             /\ liability_decreasing(generated_periods(row)))
                => interest_not_increasing(generated_periods(row))

(* C9 happens: a stored schedule over MaxCalcPayments periods at a         *)
(* positive rate whose liability decreases from the initial liability on   *)
(* and whose interest expense falls.                                       *)
C9_Witness ==
    \E standard \in Standards, lease \in leases :
        \E row \in BagToSet(stored_schedules(standard, lease.id)) :
            /\ annual_rate(standard, lease) > 0
            /\ Len(generated_periods(row)) = MaxCalcPayments
            /\ generated_periods(row)[1].lease_liability_beginning.float
                   > generated_periods(row)[1].lease_liability_ending.float
            /\ liability_decreasing(generated_periods(row))
            /\ generated_periods(row)[1].interest_expense.float
                   > generated_periods(row)[2].interest_expense.float

other_schedules(standard, lease_id) ==
    [s \in Standards |->
        [l \in LeaseIds |->
            IF s = standard /\ l = lease_id THEN <<>>
            ELSE <<stored_schedules(s, l), stored_entries(s, l)>>]]

(* C11: a schedule delete for a lease with a stored schedule of the        *)
(* standard is answered 204 and leaves no summary and no entry of the      *)
(* standard stored for the lease, while the lease's schedule of the other  *)
(* standard, the schedules of every other lease, the leases and the        *)
(* payments stay as they were; without a stored schedule it is answered    *)
(* 404 and changes no table; a GET of the schedule after the 204 is        *)
(* answered 404.                                                           *)
C11_DeleteScheduleFrame ==
    /\ [][\A standard \in Standards, lease_id \in LeaseIds :
             delete_schedule(standard, lease_id) =>
                 IF stored_schedules(standard, lease_id) = EmptyBag
                 THEN /\ response'.status = 404
                      /\ UNCHANGED tables
                 ELSE /\ response'.status = 204
                      /\ stored_schedules(standard, lease_id)' = EmptyBag
                      /\ stored_entries(standard, lease_id)' = EmptyBag
                      /\ other_schedules(standard, lease_id)'
                             = other_schedules(standard, lease_id)
                      /\ UNCHANGED <<leases, lease_id_seq, payments>>]_vars
    /\ [][(/\ response.op = "delete_schedule"
           /\ response.status = 204
           /\ get_schedule(response.standard, response.id))
          => response'.status = 404]_vars

(* C11 happens: a schedule was deleted while the lease's schedule of the   *)
(* other standard and a schedule of another lease are stored.              *)
C11_Witness ==
    /\ response.op = "delete_schedule"
    /\ response.status = 204
    /\ \E standard \in Standards \ {response.standard} :
           /\ stored_schedules(standard, response.id) # EmptyBag
           /\ stored_entries(standard, response.id) # EmptyBag
    /\ \E standard \in Standards, lease_id \in LeaseIds \ {response.id} :
           /\ stored_schedules(standard, lease_id) # EmptyBag
           /\ stored_entries(standard, lease_id) # EmptyBag

(* The lease ids the stored summaries and entries refer to.                *)
referenced_lease_ids ==
    {r.lease_id : r \in BagToSet(asc842_schedules)}
        \cup {r.lease_id : r \in BagToSet(ifrs16_schedules)}
        \cup {r.lease_id : r \in BagToSet(lease_schedule_entries)}

(* C12: a delete of a stored lease is answered 204 and leaves no summary   *)
(* and no entry that refers to the lease; and since a deleted id is never  *)
(* given to a new lease, in every state the summaries and entries refer    *)
(* only to stored leases.                                                  *)
C12_LeaseDeleteCascades ==
    /\ [][\A lease_id \in LeaseIds :
             (/\ \E l \in leases : l.id = lease_id
              /\ delete_lease(lease_id))
             => /\ response'.status = 204
                /\ ~(\E l \in leases' : l.id = lease_id)
                /\ lease_id \notin referenced_lease_ids']_vars
    /\ [](referenced_lease_ids \subseteq {l.id : l \in leases})

(* C12 happens: a lease was deleted whose payment row is still stored,     *)
(* while the other lease keeps a schedule with its entries.                *)
C12_Witness ==
    /\ response.op = "delete_lease"
    /\ response.status = 204
    /\ \E i \in 1..Len(payments) : payments[i].contract_id = str(response.id)
    /\ \E standard \in Standards, lease_id \in LeaseIds \ {response.id} :
           /\ stored_schedules(standard, lease_id) # EmptyBag
           /\ stored_entries(standard, lease_id) # EmptyBag

(* C19: the commit of a generation of a standard for a lease stores one    *)
(* summary of the standard for the lease, with entries, and leaves the     *)
(* lease's summary and entries of the other standard, the summaries and    *)
(* entries of every other lease, the leases and the payments as they were; *)
(* every other step of a generation (the request, its INSERTs, a refusal,  *)
(* a failure) changes no table.                                            *)
C19_GenerateFrame ==
    /\ [][(/\ session # NULL
           /\ session' = NULL
           /\ response'.status = 201
           /\ commit)
          => \A standard \in {session[1].standard}, lease_id \in {session[1].lease_id} :
                 /\ other_schedules(standard, lease_id)'
                        = other_schedules(standard, lease_id)
                 /\ BagCardinality(stored_schedules(standard, lease_id))' = 1
                 /\ stored_entries(standard, lease_id)' # EmptyBag
                 /\ UNCHANGED <<leases, lease_id_seq, payments>>]_vars
    /\ [][(session' # NULL \/ (response'.op = "generate" /\ response'.status # 201))
          => UNCHANGED tables]_vars

(* C19 happens: the IFRS 16 schedule of a lease was committed while its    *)
(* ASC 842 schedule was stored, and for another lease the ASC 842 schedule *)
(* is stored alone.                                                        *)
C19_Witness ==
    /\ response.op = "generate"
    /\ response.status = 201
    /\ response.standard = "IFRS16"
    /\ \A standard \in Standards :
           /\ stored_schedules(standard, response.id) # EmptyBag
           /\ stored_entries(standard, response.id) # EmptyBag
    /\ \E lease_id \in LeaseIds \ {response.id} :
           /\ stored_schedules("ASC842", lease_id) # EmptyBag
           /\ stored_schedules("IFRS16", lease_id) = EmptyBag

(* The schedule object of the generation in flight, before its INSERT,     *)
(* with the lease and the payment rows it was computed from.               *)
computed_schedules ==
    {[standard |-> session[1].standard, lease |-> l,
      rows |-> payment_rows_of(l.id), schedule |-> session[1].new_schedule[1],
      entries |-> session[1].new_schedule[1].schedule_data.entries] :
        l \in {l \in leases : /\ session # NULL
                              /\ session[1].new_schedule # NULL
                              /\ l.id = session[1].lease_id}}

sum_of_payments(rows) == SumSeq([k \in 1..Len(rows) |-> rows[k].amount])

(* C14: a schedule computed at rate zero by either calculator has as its   *)
(* present value (the initial lease liability) the sum of the payment      *)
(* amounts plus the residual value.                                        *)
C14_ZeroRatePresentValue ==
    \A c \in computed_schedules :
        annual_rate(c.standard, c.lease) = 0 =>
            c.schedule.initial_lease_liability
                = sum_of_payments(c.rows) + c.lease.residual_value

(* C14 happens: an IFRS 16 schedule over MaxCalcPayments payments, not all *)
(* of one amount, computed at rate zero for a lease with a residual value. *)
C14_Witness ==
    \E c \in computed_schedules :
        /\ c.standard = "IFRS16"
        /\ annual_rate(c.standard, c.lease) = 0
        /\ c.lease.residual_value > 0
        /\ Len(c.rows) = MaxCalcPayments
        /\ c.rows[1].amount # c.rows[2].amount

(* C15: a schedule computed at a positive rate for a lease without         *)
(* residual value has a present value above zero and below the sum of the  *)
(* payments; and a schedule computed from a single payment P has the       *)
(* present value P / (1 + r) rounded to the standard's precision, one      *)
(* period, and in that period an amortization equal to the initial ROU     *)
(* asset.                                                                  *)
C15_FirstPaymentDiscounted ==
    \A c \in computed_schedules :
        LET pv == c.schedule.initial_lease_liability
            r == calculate_period_rate_from_payments(annual_rate(c.standard, c.lease),
                                                     fetch_payments_from_db(c.lease))
            periods == actual_entries(c.entries)
        IN /\ (annual_rate(c.standard, c.lease) > 0 /\ c.lease.residual_value = 0)
                  => (0 < pv /\ pv < sum_of_payments(c.rows))
           /\ (Len(c.rows) = 1 /\ c.lease.residual_value = 0)
                  => /\ pv = Quantize(c.rows[1].amount * r.den, r.num + r.den,
                                      tolerance(c.standard))
                     /\ Len(periods) = 1
                     /\ periods[1].amortization.float = c.schedule.initial_rou_asset

(* The present value a standard's calculator computes for a lease from its *)
(* payment rows.                                                           *)
present_value_of(standard, lease) ==
    LET payment_schedule == fetch_payments_from_db(lease)
        period_rate == calculate_period_rate_from_payments(annual_rate(standard, lease),
                                                           payment_schedule)
    IN IF standard = "ASC842"
       THEN calculate_present_value_from_payments(lease, payment_schedule, period_rate)
       ELSE calculate_present_value(lease, payment_schedule, period_rate)

(* C16: of every stored schedule, the initial lease liability the entries  *)
(* start from is the present value, the initial ROU asset is that          *)
(* liability plus initial direct costs plus prepaid rent less lease        *)
(* incentives and is not below the liability, and the stored summary's     *)
(* initial_rou_asset and initial_lease_liability are these two values.     *)
C16_InitialMeasurement ==
    \A standard \in Standards, lease \in leases :
        \A row \in BagToSet(stored_schedules(standard, lease.id)) :
            LET first == row.schedule_data.entries[1]
                lease_liability == first.lease_liability_beginning.float
                rou_asset == first.rou_asset_beginning.float
            IN /\ lease_liability = present_value_of(standard, lease)
               /\ rou_asset = lease_liability + lease.initial_direct_costs
                                  + lease.prepaid_rent - lease.lease_incentives
               /\ rou_asset >= lease_liability
               /\ row.initial_rou_asset = rou_asset
               /\ row.initial_lease_liability = lease_liability

(* C20 as stated: in every period of every generated schedule, of all      *)
(* three variants, the principal reduction equals the lease payment.       *)
C20_PrincipalIsPayment ==
    \A standard \in Standards, lease_id \in LeaseIds :
        \A row \in BagToSet(stored_schedules(standard, lease_id)) :
            \A k \in 1..Len(generated_periods(row)) :
                generated_periods(row)[k].principal_reduction.float
                    = generated_periods(row)[k].lease_payment.float

(* C20 amended: in every period of a generated ASC 842 schedule, finance   *)
(* or operating, the principal reduction equals the lease payment; in      *)
(* every period of a generated IFRS 16 schedule it equals the lease        *)
(* payment less the period's interest expense.                             *)
C20_PrincipalByStandard ==
    \A standard \in Standards, lease_id \in LeaseIds :
        \A row \in BagToSet(stored_schedules(standard, lease_id)) :
            \A k \in 1..Len(generated_periods(row)) :
                LET e == generated_periods(row)[k]
                IN e.principal_reduction.float
                       = IF standard = "ASC842" THEN e.lease_payment.float
                         ELSE e.lease_payment.float - e.interest_expense.float

(* C20 happens: a finance schedule and an IFRS 16 schedule of the lease,   *)
(* each over MaxCalcPayments periods with interest in the first one, are   *)
(* stored.                                                                 *)
C20_Witness ==
    \E lease \in leases :
        /\ lease.classification = "finance"
        /\ \A standard \in Standards :
               \E row \in BagToSet(stored_schedules(standard, lease.id)) :
                   /\ Len(generated_periods(row)) = MaxCalcPayments
                   /\ generated_periods(row)[1].interest_expense.float > 0

(* C13: every stored lease ends after it commences; a create or an update  *)
(* whose dates, the stored one taken for the one an update does not        *)
(* supply, have end_date <= commencement_date is answered 422 and leaves   *)
(* the leases as they were.                                                *)
C13_EndAfterCommencement ==
    /\ [](\A l \in leases : l.end_date > l.commencement_date)
    /\ [][\A lease_data \in LeaseCreate :
             (/\ lease_data.dates[2] <= lease_data.dates[1]
              /\ create_lease(lease_data))
             => /\ response'.status = 422
                /\ UNCHANGED tables]_vars
    /\ [][\A l \in leases, update_data \in LeaseUpdate :
             (/\ DOMAIN update_data \cap {"end_date", "commencement_date"} # {}
              /\ get_or(update_data, "end_date", l.end_date)
                     <= get_or(update_data, "commencement_date", l.commencement_date)
              /\ update_lease(l.id, update_data))
             => /\ response'.status = 422
                /\ UNCHANGED tables]_vars

(* C13 happens: an update that supplied only a commencement_date on or     *)
(* after the stored end_date was refused, for a lease whose dates an       *)
(* earlier update had moved.                                               *)
C13_Witness ==
    /\ response.op = "update_lease"
    /\ response.status = 422
    /\ response.detail = "end_date must be after commencement_date"
    /\ \E l \in leases : /\ l.id = response.id
                         /\ l.commencement_date = 1
                         /\ l.end_date = 2

(* The requests that change a lease or a payment.                          *)
InputRequests ==
    {"update_lease", "create_payment", "update_payment", "delete_payment",
     "mark_payment_as_paid"}

(* C18: an update of a lease and a create, update, delete or mark-paid of  *)
(* a payment leave every stored summary and every stored entry as they     *)
(* were, and a GET of a stored schedule after one of them is answered 200  *)
(* with the summary; the stored entries of a lease and a standard change   *)
(* only from none to a committed batch, or to none by a schedule delete or *)
(* a lease delete.                                                         *)
C18_WriteOnce ==
    /\ [][response'.op \in InputRequests
             => UNCHANGED <<asc842_schedules, ifrs16_schedules,
                            lease_schedule_entries>>]_vars
    /\ [][\A standard \in Standards, lease_id \in LeaseIds :
             (/\ response.op \in InputRequests
              /\ stored_schedules(standard, lease_id) # EmptyBag
              /\ get_schedule(standard, lease_id))
             => /\ response'.status = 200
                /\ SeqToBag(response'.body) = stored_schedules(standard, lease_id)]_vars
    /\ [][\A standard \in Standards, lease_id \in LeaseIds :
             stored_entries(standard, lease_id)' # stored_entries(standard, lease_id)
             => \/ /\ stored_entries(standard, lease_id) = EmptyBag
                   /\ response'.op = "generate"
                   /\ response'.status = 201
                \/ /\ stored_entries(standard, lease_id)' = EmptyBag
                   /\ response'.op \in {"delete_schedule", "delete_lease"}
                   /\ response'.status = 204]_vars

(* C18 happens: the schedule of a lease was read after an update of its    *)
(* payment, which is paid and no longer has the amount and the due date    *)
(* the stored entry was generated from, and the lease is no longer of the  *)
(* classification the ASC 842 schedule was generated for.                  *)
C18_Witness ==
    /\ response.op = "get_schedule"
    /\ response.status = 200
    /\ response.standard = "ASC842"
    /\ Len(payments) = 1
    /\ payments[1].status = "Paid"
    /\ \E e \in BagToSet(stored_entries("ASC842", response.id)) :
           /\ e.lease_payment # payments[1].amount
           /\ e.period_date # date(payments[1].due_date)
    /\ \E l \in leases, row \in BagToSet(stored_schedules("ASC842", response.id)) :
           /\ l.id = response.id
           /\ l.classification = "operating"
           /\ row.schedule_data.entries[2].total_expense.float
                  # row.schedule_data.entries[2].lease_payment.float

(* C17: with generation requests handled at the same time, no lease ever   *)
(* has two stored summaries of a standard, nor two stored entries of a     *)
(* standard with the same period number.                                   *)
C17_AtMostOneSchedule ==
    \A standard \in Standards, lease_id \in LeaseIds :
        /\ BagCardinality(stored_schedules(standard, lease_id)) <= 1
        /\ \A k \in 1..MaxCalcPayments :
               entries_with_period(stored_entries(standard, lease_id), k) <= 1

(* The stored schedules with the lease each belongs to, the periodic rate  *)
(* of its standard over the lease's payments, and its periods 1..n as      *)
(* plain amounts.                                                          *)
variant_of(standard, lease) ==
    IF standard = "IFRS16" THEN "IFRS16"
    ELSE IF lease.classification = "finance" THEN "ASC842-Finance"
    ELSE "ASC842-Operating"

amounts_of(e) ==
    [period |-> e.period,
     lease_payment |-> e.lease_payment.float,
     interest_expense |-> e.interest_expense.float,
     principal_reduction |-> e.principal_reduction.float,
     lease_liability_beginning |-> e.lease_liability_beginning.float,
     lease_liability_ending |-> e.lease_liability_ending.float,
     rou_asset_beginning |-> e.rou_asset_beginning.float,
     amortization |-> e.amortization.float,
     rou_asset_ending |-> e.rou_asset_ending.float,
     total_expense |-> e.total_expense.float]

generated_schedules ==
    UNION {{[standard |-> standard, variant |-> variant_of(standard, lease),
             lease |-> lease, row |-> row,
             rate |-> calculate_period_rate_from_payments(
                          annual_rate(standard, lease), fetch_payments_from_db(lease)),
             periods |-> [k \in 1..Len(generated_periods(row)) |->
                              amounts_of(generated_periods(row)[k])]] :
               row \in BagToSet(stored_schedules(standard, lease.id))} :
           standard \in Standards, lease \in leases}

C22_StraightLineAmortization ==
    \A g \in generated_schedules :
        g.variant # "ASC842-Operating" =>
            LET n == Len(g.periods)
                rou_asset == g.periods[1].rou_asset_beginning
            IN /\ \A k \in 1..(n - 1) :
                      g.periods[k].amortization
                          = Quantize(rou_asset, n, tolerance(g.standard))
               /\ g.periods[n].amortization = g.periods[n].rou_asset_beginning
               /\ g.periods[n].rou_asset_ending = 0
               /\ SumSeq([k \in 1..n |-> g.periods[k].amortization]) = rou_asset

(* The straight-line expense of an operating schedule: the sum of the      *)
(* payments plus the initial direct costs, over n, rounded to 2 decimals.  *)
straight_line_expense_of(g) ==
    Quantize(SumSeq([k \in 1..Len(g.periods) |-> g.periods[k].lease_payment])
                 + g.lease.initial_direct_costs,
             Len(g.periods), Cent)

(* C23: in every generated ASC842-Operating schedule each period records   *)
(* as total_expense the constant (sum of payments + initial direct costs)  *)
(* / n rounded to 2 decimals, and as amortization that constant less the   *)
(* period's interest expense, floored at 0 and capped at the remaining     *)
(* asset; so the amortization lies between 0 and rou_asset_beginning, and  *)
(* interest plus amortization is the total expense when neither the floor  *)
(* nor the cap applies.                                                    *)
C23_OperatingPlug ==
    \A g \in generated_schedules :
        g.variant = "ASC842-Operating" =>
            \A k \in 1..Len(g.periods) :
                LET e == g.periods[k]
                    plug == straight_line_expense_of(g) - e.interest_expense
                    floored == Max(plug, 0)
                IN /\ e.total_expense = straight_line_expense_of(g)
                   /\ e.amortization = IF floored > e.rou_asset_beginning
                                       THEN e.rou_asset_beginning ELSE floored
                   /\ 0 <= e.amortization
                   /\ e.amortization <= e.rou_asset_beginning
                   /\ (plug >= 0 /\ plug <= e.rou_asset_beginning)
                          => e.interest_expense + e.amortization = e.total_expense

(* The ending liability of a period before the floor at zero: the          *)
(* beginning liability less the payment plus the interest.                 *)
computed_liability_ending(e) ==
    e.lease_liability_beginning - e.lease_payment + e.interest_expense

computed_asset_ending(e) == e.rou_asset_beginning - e.amortization

(* C24: in every period of every generated schedule, and in every stored   *)
(* entry, lease_liability_ending and rou_asset_ending are at least zero;   *)
(* an ending balance computed below zero is recorded as zero, at any       *)
(* period, and is the zero the next period begins with.                    *)
C24_BalancesNotNegative ==
    /\ \A g \in generated_schedules :
           \A k \in 1..Len(g.periods) :
               LET e == g.periods[k]
               IN /\ e.lease_liability_ending >= 0
                  /\ e.rou_asset_ending >= 0
                  /\ computed_liability_ending(e) < 0 =>
                         /\ e.lease_liability_ending = 0
                         /\ k < Len(g.periods)
                                => g.periods[k + 1].lease_liability_beginning = 0
                  /\ computed_asset_ending(e) < 0 =>
                         /\ e.rou_asset_ending = 0
                         /\ k < Len(g.periods)
                                => g.periods[k + 1].rou_asset_beginning = 0
    /\ \A standard \in Standards, lease_id \in LeaseIds :
           \A e \in BagToSet(stored_entries(standard, lease_id)) :
               /\ e.lease_liability_ending >= 0
               /\ e.rou_asset_ending >= 0

(* C24 happens: a finance schedule is stored in which a period before the  *)
(* last has a computed ending liability below zero, recorded as zero, and  *)
(* the next period begins from zero.                                       *)
C24_Witness ==
    \E g \in generated_schedules :
        /\ g.variant = "ASC842-Finance"
        /\ \E k \in 1..(Len(g.periods) - 1) :
               /\ computed_liability_ending(g.periods[k]) < 0
               /\ g.periods[k].lease_liability_ending = 0
               /\ g.periods[k + 1].lease_liability_beginning = 0
        /\ stored_entries("ASC842", g.lease.id) # EmptyBag

(* C25: the entries embedded in a stored ASC 842 summary hold exactly one  *)
(* period-0 entry, the first, with lease_payment, interest_expense,        *)
(* principal_reduction, amortization and total_expense zero and beginning  *)
(* and ending balances equal to the initial ROU asset and the initial      *)
(* lease liability; no stored entry has period 0, the summary totals are   *)
(* the sums over the periods 1..n; and the entries embedded in a stored    *)
(* IFRS 16 summary hold no period-0 entry.                                 *)
C25_InitialEntry ==
    \A lease_id \in LeaseIds :
        /\ \A row \in BagToSet(stored_schedules("ASC842", lease_id)) :
               LET entries == row.schedule_data.entries
                   first == amounts_of(entries[1])
                   periods == [k \in 1..Len(generated_periods(row)) |->
                                   amounts_of(generated_periods(row)[k])]
               IN /\ {k \in 1..Len(entries) : entries[k].period = 0} = {1}
                  /\ first.lease_payment = 0
                  /\ first.interest_expense = 0
                  /\ first.principal_reduction = 0
                  /\ first.amortization = 0
                  /\ first.total_expense = 0
                  /\ first.lease_liability_beginning = row.initial_lease_liability
                  /\ first.lease_liability_ending = row.initial_lease_liability
                  /\ first.rou_asset_beginning = row.initial_rou_asset
                  /\ first.rou_asset_ending = row.initial_rou_asset
                  /\ Len(periods) = Len(entries) - 1
                  /\ row.total_payments = sum_field(periods, "lease_payment")
                  /\ row.total_interest = sum_field(periods, "interest_expense")
                  /\ row.total_amortization = sum_field(periods, "amortization")
        /\ \A e \in BagToSet(stored_entries("ASC842", lease_id)) : e.period > 0
        /\ \A row \in BagToSet(stored_schedules("IFRS16", lease_id)) :
               \A k \in 1..Len(row.schedule_data.entries) :
                   row.schedule_data.entries[k].period = k

(* C25 happens: an ASC 842 schedule with a positive initial liability and  *)
(* an initial ROU asset above it, and an IFRS 16 schedule, are stored for  *)
(* a lease, each with MaxCalcPayments stored entries.                      *)
C25_Witness ==
    \E lease_id \in LeaseIds :
        /\ \E row \in BagToSet(stored_schedules("ASC842", lease_id)) :
               /\ row.initial_lease_liability > 0
               /\ row.initial_rou_asset > row.initial_lease_liability
               /\ Len(row.schedule_data.entries) = MaxCalcPayments + 1
        /\ \E row \in BagToSet(stored_schedules("IFRS16", lease_id)) :
               Len(row.schedule_data.entries) = MaxCalcPayments
        /\ \A standard \in Standards :
               BagCardinality(stored_entries(standard, lease_id)) = MaxCalcPayments

(* The frequency of C26 for the due dates of a payment schedule: 12 with   *)
(* fewer than 2 payments or without a positive gap between consecutive due *)
(* dates; otherwise by the average of the positive gaps, 12 up to 35 days, *)
(* 4 above 35 and up to 100 days, 1 above 100 days.                        *)
frequency_of(payment_schedule) ==
    LET gap(i) == payment_schedule[i + 1].due_date - payment_schedule[i].due_date
        positive == {i \in 1..(Len(payment_schedule) - 1) : gap(i) > 0}
        total == SumSeq([i \in 1..(Len(payment_schedule) - 1) |->
                            IF i \in positive THEN gap(i) ELSE 0])
        count == Cardinality(positive)
    IN IF Len(payment_schedule) < 2 \/ positive = {} THEN 12
       ELSE IF total <= 35 * count THEN 12
       ELSE IF total > 35 * count /\ total <= 100 * count THEN 4
       ELSE 1

(* C26: the periodic rate of a generated schedule is the annual rate       *)
(* divided by that frequency, in both calculators: the rate either         *)
(* calculator derives is annual / frequency, and the interest of every     *)
(* period of the schedule is that rate on the variant's base.              *)
C26_PeriodRateFromCadence ==
    \A g \in generated_schedules :
        LET payment_schedule == fetch_payments_from_db(g.lease)
            frequency == frequency_of(payment_schedule)
            annual == annual_rate(g.standard, g.lease)
        IN /\ frequency \in {12, 4, 1}
           /\ g.rate.num * 100 * frequency = annual * g.rate.den
           /\ \A k \in 1..Len(g.periods) :
                  LET e == g.periods[k]
                      base == IF g.variant = "ASC842-Finance"
                              THEN e.lease_liability_beginning - e.lease_payment
                              ELSE e.lease_liability_beginning
                  IN e.interest_expense
                         = Quantize(base * annual, 100 * frequency, tolerance(g.standard))

(* C26 happens: the ASC 842 and the IFRS 16 schedule of a lease are stored *)
(* whose MaxCalcPayments payments have two due on the same day and the     *)
(* others 36 days apart, so that the frequency is 4, with interest in the  *)
(* last period of each.                                                    *)
C26_Witness ==
    \E lease \in leases :
        LET payment_schedule == fetch_payments_from_db(lease)
        IN /\ Len(payment_schedule) = MaxCalcPayments
           /\ payment_schedule[2].due_date = payment_schedule[1].due_date
           /\ \A i \in 2..(MaxCalcPayments - 1) :
                  payment_schedule[i + 1].due_date - payment_schedule[i].due_date = 36
           /\ frequency_of(payment_schedule) = 4
           /\ \A standard \in Standards :
                  \E g \in generated_schedules :
                      /\ g.standard = standard
                      /\ g.lease = lease
                      /\ g.periods[MaxCalcPayments].interest_expense # 0

(* C27: a generation for a lease whose end date is not after its           *)
(* commencement date, or which has no period to compute, is refused with   *)
(* an error before anything is computed, and stores nothing; and no        *)
(* generation ever computes a schedule over zero periods, the divisor of   *)
(* the amortization step.                                                  *)
C27_InvalidLeaseTerm ==
    /\ [][\A standard \in Standards, lease \in leases :
             (/\ \/ lease.end_date <= lease.commencement_date
                 \/ Len(payment_rows_of(lease.id)) <= 0
              /\ stored_schedules(standard, lease.id) = EmptyBag
              /\ generate(standard, lease.id))
             => /\ session' = NULL
                /\ response'.op = "generate"
                /\ response'.status >= 400
                /\ UNCHANGED tables]_vars
    /\ [](session # NULL => session[1].payment_count > 0)
    /\ [](\A standard \in Standards, lease \in leases :
              stored_schedules(standard, lease.id) # EmptyBag
                  => lease.end_date > lease.commencement_date)

(* C28: every stored payment has an amount above zero, whatever payments   *)
(* were created and updated, and every stored schedule entry a             *)
(* lease_payment above zero.                                               *)
C28_PaymentsPositive ==
    /\ \A i \in 1..Len(payments) : payments[i].amount > 0
    /\ \A standard \in Standards, lease_id \in LeaseIds :
           \A e \in BagToSet(stored_entries(standard, lease_id)) : e.lease_payment > 0

(* The initial measurement of a generated schedule, as the calculator of   *)
(* its standard computes it from the lease and its payments.               *)
initial_measurement_of(g) ==
    calculate_initial_measurements(g.lease, present_value_of(g.standard, g.lease))

(* C29: in every generated schedule, of any variant, period 1 begins with  *)
(* the initial lease liability and the initial ROU asset, and every later  *)
(* period begins with the ending liability and the ending asset the period *)
(* before it recorded.                                                     *)
C29_BalancesChain ==
    \A g \in generated_schedules :
        /\ g.periods[1].lease_liability_beginning
               = initial_measurement_of(g).lease_liability
        /\ g.periods[1].rou_asset_beginning = initial_measurement_of(g).rou_asset
        /\ \A i \in 1..(Len(g.periods) - 1) :
               /\ g.periods[i + 1].lease_liability_beginning
                      = g.periods[i].lease_liability_ending
               /\ g.periods[i + 1].rou_asset_beginning = g.periods[i].rou_asset_ending

(* C29 happens: schedules of both standards over MaxCalcPayments periods   *)
(* are stored for a lease, in each of which a period before the last ends  *)
(* with a liability and an asset that are above zero and below those it    *)
(* began with.                                                             *)
C29_Witness ==
    \E lease \in leases :
        \A standard \in Standards :
            \E g \in generated_schedules :
                /\ g.standard = standard
                /\ g.lease = lease
                /\ Len(g.periods) = MaxCalcPayments
                /\ \E i \in 1..(MaxCalcPayments - 1) :
                       /\ g.periods[i].lease_liability_ending > 0
                       /\ g.periods[i].lease_liability_ending
                              < g.periods[i].lease_liability_beginning
                       /\ g.periods[i].rou_asset_ending > 0
                       /\ g.periods[i].rou_asset_ending < g.periods[i].rou_asset_beginning

(* C30: in every period of every generated schedule, of all three          *)
(* variants, the ending liability is the beginning liability less the      *)
(* payment plus the interest expense, and the ending asset the beginning   *)
(* asset less the amortization, each floored at zero.                      *)
C30_RollForward ==
    \A g \in generated_schedules :
        \A k \in 1..Len(g.periods) :
            LET e == g.periods[k]
            IN /\ e.lease_liability_ending
                      = Max(0, e.lease_liability_beginning - e.lease_payment
                                   + e.interest_expense)
               /\ e.rou_asset_ending = Max(0, e.rou_asset_beginning - e.amortization)

(* C30 happens: an operating and an IFRS 16 schedule over MaxCalcPayments  *)
(* periods are stored for a lease; each has a period with interest that    *)
(* ends with a liability above zero, and the operating one a period whose  *)
(* liability, computed below zero, is floored.                             *)
C30_Witness ==
    \E lease \in leases :
        /\ lease.classification = "operating"
        /\ \A standard \in Standards :
               \E g \in generated_schedules :
                   /\ g.standard = standard
                   /\ g.lease = lease
                   /\ Len(g.periods) = MaxCalcPayments
                   /\ \E k \in 1..Len(g.periods) :
                          /\ g.periods[k].interest_expense > 0
                          /\ g.periods[k].lease_liability_ending > 0
                          /\ g.periods[k].rou_asset_ending > 0
                   /\ standard = "ASC842" =>
                          \E k \in 1..Len(g.periods) :
                              /\ g.periods[k].lease_liability_beginning
                                     - g.periods[k].lease_payment
                                     + g.periods[k].interest_expense < 0
                              /\ g.periods[k].lease_liability_ending = 0

=============================================================================
